---- MODULE Spec2Model ----
(***************************************************************************)
(* Subscription payments of the node API: the user subscription record,    *)
(* the Stripe webhook, the verify-after-redirect call and the status read  *)
(* of controllers/paymentController.js, as request handlers that run       *)
(* concurrently over one document store.  A handler is cut at its store    *)
(* operations: one action reads the record and runs the code up to the     *)
(* next save, one action performs the save and runs the code after it.     *)
(***************************************************************************)
EXTENDS Integers, FiniteSets, Sequences, TLC

\* ---------------------------------------------------------------- bounds
\* The clock runs over 0..MaxTime.
MaxTime == 3
\* Number of requests that may be between their read and their save at once.
MaxInflight == 2
\* Number of clock ticks that may pass while a request is pending: requests
\* are short against a subscription year, yet two racing requests can carry
\* different clock values.
MaxLatency == 1
\* Number of customers the provider creates for one user.
MaxCustomers == 2
\* Number of discount codes created, deleted ones included, when codes are
\* deleted as well.
MaxCodes == 2

\* Number of password-reset tokens the process makes.
MaxTokens == 2

\* ------------------------------------------------------------- constants
\* One subscription year, in clock ticks (setFullYear(getFullYear() + 1)).
Year == 2
\* A date field that is absent.
NoDate == -1
\* A user reference that is absent from the metadata or the URL.
NoRef == "none"

\* Existing user records, and the references a request may carry: an
\* existing user, a well-formed identifier of no user, a string that is no
\* identifier, or nothing.
Users == {"u1", "u2"}
UnknownRef == "u9"
InvalidRef == "bad"
UserRefs == Users \cup {UnknownRef, InvalidRef, NoRef}

\* mongoose.Types.ObjectId.isValid
isValid(ref) == ref \in Users \cup {UnknownRef}

\* Checkout sessions held by the payment provider: the user reference of the
\* metadata and the provider's payment_status.  User u2 has no session.
Sessions ==
  { [id |-> "sA", userId |-> "u1",       payment_status |-> "paid"],
    [id |-> "sC", userId |-> "u1",       payment_status |-> "unpaid"],
    [id |-> "sD", userId |-> UnknownRef, payment_status |-> "paid"],
    [id |-> "sE", userId |-> InvalidRef, payment_status |-> "paid"],
    [id |-> "sF", userId |-> NoRef,      payment_status |-> "paid"] }
SessionIds == {s.id : s \in Sessions}
\* A session identifier the provider does not know.
UnknownSession == "sX"

\* checkout.session.completed is sent for a card session once it is paid.
PaidSessionIds == {s.id : s \in {x \in Sessions : x.payment_status = "paid"}}

EventTypes == {"checkout.session.completed", "payment_intent.succeeded", "other"}

Fields == {"paymentStatus", "paymentDate", "subscriptionExpiryDate", "subscriptionStatus"}

\* A user record as the schema creates it.
NewUser ==
  [paymentStatus |-> FALSE, paymentDate |-> NoDate,
   subscriptionExpiryDate |-> NoDate, subscriptionStatus |-> "none"]

\* ------------------------------------------------ accounts and passwords

\* One hour, in clock ticks (60 * 60 * 1000 milliseconds).
Hour == 2

\* The emails of the existing accounts, an email of no account, and the
\* email field missing from the body.
Registered == {"e1", "e2"}
UnknownEmail == "e9"
NoEmail == ""
Emails == Registered \cup {UnknownEmail}

\* New passwords of a request, and the password field missing.
Passwords == {"p1", "p2"}
NoPassword == ""

\* Reset tokens: the k-th value of crypto.randomBytes(32) is the token k,
\* every call giving a value not given before.  A body may also carry no
\* token, or a string that is no token the process made.
NoToken == 0
ForgedToken == -1

\* crypto.createHash("sha256").update(token).digest("hex"), and the
\* undefined value of the stored field.
Sha256(token) == <<"sha256", token>>
NoHash == <<>>

\* bcrypt.hash(password, salt)
Bcrypt(password) == <<"bcrypt", password>>

\* An account that has asked for no reset.
NewAccount ==
  [password |-> Bcrypt("p0"), resetPasswordToken |-> NoHash,
   resetPasswordExpires |-> NoDate]

\* The body of a password request, and its response.
AuthBody(email, token, password) ==
  [email |-> email, token |-> token, password |-> password]
AuthResp(op, code, message, req) ==
  [op |-> op, code |-> code, message |-> message, req |-> req]
NoAuthResp == AuthResp("none", 0, "", AuthBody(NoEmail, NoToken, NoPassword))

VARIABLES
  now,        \* the clock (new Date())
  env,        \* [stripe, webhookSecret]: which secrets the process was started with
  db,         \* the stored user records
  inflight,   \* the requests between their read and their save
  lastResp,   \* the response the last step wrote, until it is sent
  everPaid,   \* history: a record-payment write was persisted for the user
  activeAt,   \* history: processing time of the last persisted record-payment write
  expiredAt,  \* history: evaluation time of the last persisted expiry write
  appliedBy,  \* history: per session, the paths that persisted its payment
  racedBy,    \* history: per session, the paths that persisted its payment
              \* having read the record before any payment was stored
  ev,         \* inputs and result of the evaluator specification
  codes,      \* the stored discount codes, in insertion order
  customerRef,\* per user, the stored stripeCustomerId
  customers,  \* per user, the number of customers created at the provider
  pending,  \* the shop requests between their read and their response
  shopResp,   \* the response of the last coupon, code or checkout step
  accounts,   \* per registered email, the password and the reset fields
  emailEnv,   \* the process was started with EMAIL_HOST, a user and a password
  issued,     \* history: per reset token, the email and clock value of its making
  mail,       \* the reset tokens that were delivered by mail
  authReqs,   \* the password requests between two awaited operations
  authResp    \* the response of the last password step

\* The coupon store and the checkout state.
shop == <<codes, customerRef, customers, pending, shopResp>>

\* The accounts and the password-reset state.
auth == <<accounts, emailEnv, issued, mail, authReqs, authResp>>

vars == <<now, env, db, inflight, lastResp, everPaid, activeAt, expiredAt,
          appliedBy, racedBy, ev, shop, auth>>

NoResp == [op |-> "none", code |-> 0, received |-> FALSE, success |-> FALSE,
           paymentStatus |-> FALSE]
NoEval == [user |-> NewUser, at |-> 0, result |-> FALSE, done |-> FALSE]
\* No customer identifier; the provider's identifiers count from 1 per user.
NoCustomer == 0
\* A coupon that was not applied, and the metadata of no session.
NoCoupon == [code |-> <<>>, discount |-> 0]
NoMeta == [userId |-> NoRef, customer |-> NoCustomer, couponCode |-> <<>>,
           originalAmount |-> 0, discountAmount |-> 0, finalAmount |-> 0,
           unit_amount |-> 0]
NoReq == [userId |-> NoRef, amount |-> 0, couponCode |-> <<>>]
NoShopResp == [op |-> "none", code |-> 0, error |-> "", req |-> NoReq,
               coupon |-> NoCoupon, meta |-> NoMeta]

\* No reset token was made and no password request is under way; mail is
\* configured.
AuthIdle ==
  /\ accounts = [e \in Registered |-> NewAccount]
  /\ emailEnv = TRUE
  /\ issued = <<>>
  /\ mail = {}
  /\ authReqs = {}
  /\ authResp = NoAuthResp

\* No discount code is stored, no user has a customer at the provider and no
\* coupon, code or checkout request is under way.
ShopIdle ==
  /\ codes = <<>>
  /\ customerRef = [u \in Users |-> NoCustomer]
  /\ customers = [u \in Users |-> 0]
  /\ pending = {}
  /\ shopResp = NoShopResp

\* ------------------------------------------------------- pure functions

\* expiryDate.setFullYear(expiryDate.getFullYear() + 1)
AddYear(t) == t + Year

\* IsExpired with the day of expiry counted as expired (>= for >).
IsExpired_Inclusive(user, t) ==
  /\ user.subscriptionStatus = "active"
  /\ user.subscriptionExpiryDate # NoDate
  /\ t >= user.subscriptionExpiryDate

\* The condition under which checkSubscriptionExpiry writes.
IsExpired(user, t) ==
  /\ user.subscriptionStatus = "active"
  /\ user.subscriptionExpiryDate # NoDate
  /\ t > user.subscriptionExpiryDate

\* MarkExpired resetting the status to its initial value.
MarkExpired_Reset(user) ==
  [user EXCEPT !.subscriptionStatus = "none", !.paymentStatus = FALSE]

\* MarkExpired clearing the flag and leaving the status.
MarkExpired_FlagOnly(user) ==
  [user EXCEPT !.paymentStatus = FALSE]

\* The assignments of checkSubscriptionExpiry.
MarkExpired(user) ==
  [user EXCEPT !.subscriptionStatus = "expired", !.paymentStatus = FALSE]

\* getEffectivePaymentStatus trusting a stored status of active.
getEffectivePaymentStatus_TrustsStatus(user, t) ==
  IF ~user.paymentStatus \/ user.subscriptionStatus = "none" THEN FALSE
  ELSE IF user.subscriptionStatus = "expired" THEN FALSE
  ELSE user.paymentStatus

getEffectivePaymentStatus(user, t) ==
  IF ~user.paymentStatus \/ user.subscriptionStatus = "none" THEN FALSE
  ELSE IF user.subscriptionStatus = "expired" THEN FALSE
  ELSE IF user.subscriptionStatus = "active" /\ user.subscriptionExpiryDate # NoDate
       THEN IF t > user.subscriptionExpiryDate THEN FALSE ELSE TRUE
  ELSE user.paymentStatus

\* RecordPayment adding the year to the time still left: the new expiry
\* counts from the stored expiry when that lies in the future.
RecordPayment_Extends(user, t) ==
  [user EXCEPT !.paymentStatus = TRUE, !.paymentDate = t,
               !.subscriptionExpiryDate = AddYear(IF @ > t THEN @ ELSE t),
               !.subscriptionStatus = "active"]

\* The record-payment assignments of stripeWebhook and verifySession.
RecordPayment(user, t) ==
  [user EXCEPT !.paymentStatus = TRUE, !.paymentDate = t,
               !.subscriptionExpiryDate = AddYear(t),
               !.subscriptionStatus = "active"]

\* SaveDoc refusing the write when the stored record is no longer the one
\* that was loaded (a compare-and-set).
SaveDoc_IfUnchanged(stored, base, doc) ==
  IF stored = base
    THEN [f \in Fields |-> IF doc[f] # base[f] THEN doc[f] ELSE stored[f]]
    ELSE stored

\* user.save(): the store receives the paths whose value differs from the
\* value the document held when it was loaded or last saved.
SaveDoc(stored, base, doc) ==
  [f \in Fields |-> IF doc[f] # base[f] THEN doc[f] ELSE stored[f]]

Session(id) == CHOOSE s \in Sessions : s.id = id

Resp(op, code, received, success, paid) ==
  [op |-> op, code |-> code, received |-> received, success |-> success,
   paymentStatus |-> paid]

\* ------------------------------------------------------------- the state

Init ==
  /\ now = 0
  /\ env \in [stripe : BOOLEAN, webhookSecret : BOOLEAN]
  /\ db = [u \in Users |-> NewUser]
  /\ inflight = {}
  /\ lastResp = NoResp
  /\ everPaid = [u \in Users |-> FALSE]
  /\ activeAt = [u \in Users |-> NoDate]
  /\ expiredAt = [u \in Users |-> NoDate]
  /\ appliedBy = [s \in SessionIds |-> {}]
  /\ racedBy = [s \in SessionIds |-> {}]
  /\ ev = NoEval
  /\ ShopIdle
  /\ AuthIdle

\* A request between two store operations: the document it loaded (base: its
\* values when loaded or last saved; doc: its values now), the save it waits
\* for and the clock value its handler read.  Requests that agree on all of
\* these behave alike and are kept once.
\* seen is history: the paths that had persisted the session's payment when
\* the request read the record.
Request(kind, user, sess, pc, base, doc, t, seen) ==
  [kind |-> kind, user |-> user, sess |-> sess, pc |-> pc,
   base |-> base, doc |-> doc, t |-> t, seen |-> seen]

history == <<everPaid, activeAt, expiredAt, appliedBy, racedBy>>

\* The handler awaits a store operation with request r pending.
Await(r) ==
  /\ Cardinality(inflight \cup {r}) <= MaxInflight
  /\ inflight' = inflight \cup {r}
  /\ UNCHANGED <<db, lastResp, history>>

\* A handler that has stored nothing answers at once.
Answer(resp) ==
  /\ lastResp' = resp
  /\ UNCHANGED <<db, inflight, history>>

\* The pending request r fails at its save and answers.
Fail(r, resp) ==
  /\ lastResp' = resp
  /\ inflight' = inflight \ {r}
  /\ UNCHANGED <<db, history>>

\* The response of the last step is on its way to the client; the event loop
\* runs the next callback once it has been handed over.
Sent ==
  /\ lastResp # NoResp
  /\ lastResp' = NoResp
  /\ UNCHANGED <<now, env, auth, db, inflight, history, ev, shop>>

\* The clock advances.
Tick ==
  /\ lastResp = NoResp
  /\ now < MaxTime
  /\ \A r \in inflight : (now + 1) - r.t <= MaxLatency
  /\ now' = now + 1
  /\ UNCHANGED <<env, auth, db, inflight, lastResp, history, ev, shop>>

\* History kept when a record-payment write of request r is persisted.
PaymentPersisted(r) ==
  /\ everPaid' = [everPaid EXCEPT ![r.user] = TRUE]
  /\ activeAt' = [activeAt EXCEPT ![r.user] =
                    IF db'[r.user].subscriptionStatus = "active" THEN r.t ELSE @]
  /\ appliedBy' = [appliedBy EXCEPT ![r.sess] = @ \cup {r.kind}]
  /\ racedBy' = [racedBy EXCEPT ![r.sess] =
                    IF r.base.paymentDate = NoDate THEN @ \cup {r.kind} ELSE @]
  /\ UNCHANGED expiredAt

\* ------------------------------------------------ POST /payment/webhook

\* stripeWebhook dispatching the event without the result of constructEvent.
stripeWebhook_NoSignatureCheck(sig, type, sid, dbOk) ==
  LET userId == Session(sid).userId
      fail(code) == Answer(Resp("webhook", code, FALSE, FALSE, FALSE))
      ack == Answer(Resp("webhook", 200, TRUE, FALSE, FALSE))
  IN
  /\ lastResp = NoResp
  /\ UNCHANGED <<now, env, auth, ev, shop>>
  /\ IF ~env.stripe THEN fail(500)
     ELSE IF ~env.webhookSecret THEN fail(500)
     ELSE IF type = "checkout.session.completed" /\ userId # NoRef
       THEN IF ~isValid(userId) \/ ~dbOk THEN fail(500)
            ELSE IF userId \in Users
              THEN Await(Request("webhook", userId, sid, "paysave", db[userId],
                                 RecordPayment(db[userId], now), now,
                                 appliedBy[sid]))
              ELSE ack
       ELSE ack

\* stripeWebhook from its start to the save of the user: the configuration
\* checks, constructEvent (sig: whether the signature verifies), the dispatch
\* on the event type and User.findById (dbOk: whether the store answers).
stripeWebhook(sig, type, sid, dbOk) ==
  LET userId == Session(sid).userId
      fail(code) == Answer(Resp("webhook", code, FALSE, FALSE, FALSE))
      ack == Answer(Resp("webhook", 200, TRUE, FALSE, FALSE))
  IN
  /\ lastResp = NoResp
  /\ UNCHANGED <<now, env, auth, ev, shop>>
  /\ IF ~env.stripe THEN fail(500)
     ELSE IF ~env.webhookSecret THEN fail(500)
     ELSE IF ~sig THEN fail(400)
     ELSE IF type = "checkout.session.completed" /\ userId # NoRef
       THEN IF ~isValid(userId) \/ ~dbOk THEN fail(500)
            ELSE IF userId \in Users
              THEN Await(Request("webhook", userId, sid, "paysave", db[userId],
                                 RecordPayment(db[userId], now), now,
                                 appliedBy[sid]))
              ELSE ack
       ELSE ack

\* stripeWebhookSave acknowledging the event although the save failed.
stripeWebhookSave_Swallow(r, dbOk) ==
  /\ lastResp = NoResp
  /\ r \in inflight
  /\ r.kind = "webhook"
  /\ r.pc = "paysave"
  /\ UNCHANGED <<now, env, auth, ev, shop>>
  /\ IF dbOk
       THEN /\ db' = [db EXCEPT ![r.user] = SaveDoc(@, r.base, r.doc)]
            /\ PaymentPersisted(r)
            /\ lastResp' = Resp("webhook", 200, TRUE, FALSE, FALSE)
            /\ inflight' = inflight \ {r}
       ELSE Fail(r, Resp("webhook", 200, TRUE, FALSE, FALSE))

\* await user.save() of stripeWebhook and the acknowledgment after it.
stripeWebhookSave(r, dbOk) ==
  /\ lastResp = NoResp
  /\ r \in inflight
  /\ r.kind = "webhook"
  /\ r.pc = "paysave"
  /\ UNCHANGED <<now, env, auth, ev, shop>>
  /\ IF dbOk
       THEN /\ db' = [db EXCEPT ![r.user] = SaveDoc(@, r.base, r.doc)]
            /\ PaymentPersisted(r)
            /\ lastResp' = Resp("webhook", 200, TRUE, FALSE, FALSE)
            /\ inflight' = inflight \ {r}
       ELSE Fail(r, Resp("webhook", 500, FALSE, FALSE, FALSE))

\* ------------------------------------------ GET /payment/status/:userId

\* getPaymentStatus from its start to the save of checkSubscriptionExpiry,
\* or to its response when the subscription has not expired.
getPaymentStatus(ref, dbOk) ==
  LET fail(code) == Answer(Resp("status", code, FALSE, FALSE, FALSE)) IN
  /\ lastResp = NoResp
  /\ UNCHANGED <<now, env, auth, ev, shop>>
  /\ IF ref = NoRef THEN fail(400)
     ELSE IF ~isValid(ref) THEN fail(400)
     ELSE IF ~dbOk THEN fail(500)
     ELSE IF ref \notin Users THEN fail(404)
     ELSE IF IsExpired(db[ref], now)
       THEN Await(Request("status", ref, NoRef, "expsave", db[ref],
                          MarkExpired(db[ref]), now, {}))
       ELSE Answer(Resp("status", 200, FALSE, FALSE,
                        getEffectivePaymentStatus(db[ref], now)))

\* await user.save() of checkSubscriptionExpiry, in getPaymentStatus or in
\* verifySession, and the response computed from the document after it.
checkSubscriptionExpirySave(r, dbOk) ==
  /\ lastResp = NoResp
  /\ r \in inflight
  /\ r.kind \in {"status", "verify"}
  /\ r.pc = "expsave"
  /\ UNCHANGED <<now, env, auth, ev, shop>>
  /\ IF dbOk
       THEN /\ db' = [db EXCEPT ![r.user] = SaveDoc(@, r.base, r.doc)]
            /\ expiredAt' = [expiredAt EXCEPT ![r.user] = r.t]
            /\ UNCHANGED <<everPaid, activeAt, appliedBy, racedBy>>
            /\ lastResp' = Resp(r.kind, 200, FALSE, r.kind = "verify",
                                getEffectivePaymentStatus(r.doc, now))
            /\ inflight' = inflight \ {r}
       ELSE Fail(r, Resp(r.kind, 500, FALSE, FALSE, FALSE))

\* ------------------------------------------ POST /payment/verify-session

\* verifySession recording the payment whatever the provider reports as the
\* session's payment_status.
verifySession_AnyStatus(sid, upOk, dbOk) ==
  LET fail(code) == Answer(Resp("verify", code, FALSE, FALSE, FALSE)) IN
  /\ lastResp = NoResp
  /\ UNCHANGED <<now, env, auth, ev, shop>>
  /\ IF ~env.stripe THEN fail(500)
     ELSE IF sid = NoRef THEN fail(400)
     ELSE IF sid \notin SessionIds \/ ~upOk THEN fail(500)
     ELSE IF Session(sid).userId = NoRef THEN fail(400)
     ELSE IF ~isValid(Session(sid).userId) \/ ~dbOk THEN fail(500)
     ELSE IF Session(sid).userId \notin Users THEN fail(404)
     ELSE LET userId == Session(sid).userId
              user == db[userId]
          IN
          IF ~user.paymentStatus
            THEN Await(Request("verify", userId, sid, "paysave", user,
                               RecordPayment(user, now), now, appliedBy[sid]))
          ELSE IF IsExpired(user, now)
            THEN Await(Request("verify", userId, sid, "expsave", user,
                               MarkExpired(user), now, appliedBy[sid]))
          ELSE Answer(Resp("verify", 200, FALSE, TRUE,
                           getEffectivePaymentStatus(user, now)))

\* verifySession from its start to its first save, or to its response:
\* sessions.retrieve (upOk: whether the provider answers), User.findById and
\* the branch on user.paymentStatus.
verifySession(sid, upOk, dbOk) ==
  LET fail(code) == Answer(Resp("verify", code, FALSE, FALSE, FALSE)) IN
  /\ lastResp = NoResp
  /\ UNCHANGED <<now, env, auth, ev, shop>>
  /\ IF ~env.stripe THEN fail(500)
     ELSE IF sid = NoRef THEN fail(400)
     ELSE IF sid \notin SessionIds \/ ~upOk THEN fail(500)
     ELSE IF Session(sid).payment_status # "paid" THEN fail(200)
     ELSE IF Session(sid).userId = NoRef THEN fail(400)
     ELSE IF ~isValid(Session(sid).userId) \/ ~dbOk THEN fail(500)
     ELSE IF Session(sid).userId \notin Users THEN fail(404)
     ELSE LET userId == Session(sid).userId
              user == db[userId]
          IN
          IF ~user.paymentStatus
            THEN Await(Request("verify", userId, sid, "paysave", user,
                               RecordPayment(user, now), now, appliedBy[sid]))
          ELSE IF IsExpired(user, now)
            THEN Await(Request("verify", userId, sid, "expsave", user,
                               MarkExpired(user), now, appliedBy[sid]))
          ELSE Answer(Resp("verify", 200, FALSE, TRUE,
                           getEffectivePaymentStatus(user, now)))

\* The first await user.save() of verifySession, then checkSubscriptionExpiry
\* on the saved document: its save is the next step, or the response follows.
verifySessionSave(r, dbOk) ==
  /\ lastResp = NoResp
  /\ r \in inflight
  /\ r.kind = "verify"
  /\ r.pc = "paysave"
  /\ UNCHANGED <<now, env, auth, ev, shop>>
  /\ IF dbOk
       THEN /\ db' = [db EXCEPT ![r.user] = SaveDoc(@, r.base, r.doc)]
            /\ PaymentPersisted(r)
            /\ IF IsExpired(r.doc, now)
                 THEN /\ inflight' = (inflight \ {r}) \cup
                             {Request("verify", r.user, r.sess, "expsave", r.doc,
                                      MarkExpired(r.doc), now, r.seen)}
                      /\ UNCHANGED lastResp
                 ELSE /\ lastResp' = Resp("verify", 200, FALSE, TRUE,
                                          getEffectivePaymentStatus(r.doc, now))
                      /\ inflight' = inflight \ {r}
       ELSE Fail(r, Resp("verify", 500, FALSE, FALSE, FALSE))

\* ------------------------------------------------------- specification

Next ==
  \/ Tick
  \/ Sent
  \/ \E sig \in BOOLEAN, type \in EventTypes, sid \in PaidSessionIds,
        dbOk \in BOOLEAN : stripeWebhook(sig, type, sid, dbOk)
  \/ \E r \in inflight, dbOk \in BOOLEAN : stripeWebhookSave(r, dbOk)
  \/ \E ref \in UserRefs, dbOk \in BOOLEAN : getPaymentStatus(ref, dbOk)
  \/ \E r \in inflight, dbOk \in BOOLEAN : checkSubscriptionExpirySave(r, dbOk)
  \/ \E sid \in SessionIds \cup {UnknownSession, NoRef},
        upOk \in BOOLEAN, dbOk \in BOOLEAN : verifySession(sid, upOk, dbOk)
  \/ \E r \in inflight, dbOk \in BOOLEAN : verifySessionSave(r, dbOk)

Spec == Init /\ [][Next]_vars

\* ------------------------------------------------ one request at a time

\* Webhook deliveries, verifySession calls and status reads that do not
\* overlap: a handler starts when no request is between its read and its
\* save.
SeqNext ==
  \/ Tick
  \/ Sent
  \/ \E sig \in BOOLEAN, type \in EventTypes, sid \in PaidSessionIds,
        dbOk \in BOOLEAN :
        /\ inflight = {}
        /\ stripeWebhook(sig, type, sid, dbOk)
  \/ \E r \in inflight, dbOk \in BOOLEAN : stripeWebhookSave(r, dbOk)
  \/ \E ref \in UserRefs, dbOk \in BOOLEAN :
        /\ inflight = {}
        /\ getPaymentStatus(ref, dbOk)
  \/ \E r \in inflight, dbOk \in BOOLEAN : checkSubscriptionExpirySave(r, dbOk)
  \/ \E sid \in SessionIds \cup {UnknownSession, NoRef},
        upOk \in BOOLEAN, dbOk \in BOOLEAN :
        /\ inflight = {}
        /\ verifySession(sid, upOk, dbOk)
  \/ \E r \in inflight, dbOk \in BOOLEAN : verifySessionSave(r, dbOk)

SeqSpec == Init /\ [][SeqNext]_vars

\* ------------------------------------- the evaluator on its own inputs

Statuses == {"none", "active", "expired"}

\* Every user record and every clock value the evaluator can be given.
EvalInit ==
  /\ now = 0
  /\ env = [stripe |-> TRUE, webhookSecret |-> TRUE]
  /\ db = [u \in Users |-> NewUser]
  /\ inflight = {}
  /\ lastResp = NoResp
  /\ everPaid = [u \in Users |-> FALSE]
  /\ activeAt = [u \in Users |-> NoDate]
  /\ expiredAt = [u \in Users |-> NoDate]
  /\ appliedBy = [s \in SessionIds |-> {}]
  /\ racedBy = [s \in SessionIds |-> {}]
  /\ \E ps \in BOOLEAN, st \in Statuses,
        exp \in {NoDate} \cup (0..AddYear(MaxTime)), t \in 0..MaxTime :
        ev = [user |-> [paymentStatus |-> ps, paymentDate |-> NoDate,
                        subscriptionExpiryDate |-> exp, subscriptionStatus |-> st],
              at |-> t, result |-> FALSE, done |-> FALSE]
  /\ ShopIdle
  /\ AuthIdle

\* One call of getEffectivePaymentStatus at clock value ev.at.
Evaluate ==
  /\ ~ev.done
  /\ ev' = [ev EXCEPT !.result = getEffectivePaymentStatus(ev.user, ev.at),
                      !.done = TRUE]
  /\ UNCHANGED <<now, env, auth, db, inflight, lastResp, history, shop>>

EvalNext == Evaluate

EvalSpec == EvalInit /\ [][EvalNext]_vars

\* ------------------------------- redelivery of an unacknowledged event

\* The provider delivers the checkout.session.completed event of session sA
\* again as long as no delivery was acknowledged; stripeWebhook acknowledges
\* the event of an existing user only after its save.
Redeliver(dbOk) ==
  /\ "webhook" \notin appliedBy["sA"]
  /\ stripeWebhook(TRUE, "checkout.session.completed", "sA", dbOk)

RetryInit == Init /\ env.stripe /\ env.webhookSecret

\* The webhook path and the status reads; the record is paid by the webhook
\* alone.
RetryNext ==
  \/ Tick
  \/ Sent
  \/ \E dbOk \in BOOLEAN : Redeliver(dbOk)
  \/ \E r \in inflight, dbOk \in BOOLEAN : stripeWebhookSave(r, dbOk)
  \/ \E ref \in Users, dbOk \in BOOLEAN : getPaymentStatus(ref, dbOk)
  \/ \E r \in inflight, dbOk \in BOOLEAN : checkSubscriptionExpirySave(r, dbOk)

\* Responses are sent, the provider keeps redelivering, and the store does
\* not fail for ever.
RetryFair ==
  /\ WF_vars(Sent)
  /\ SF_vars(Redeliver(TRUE))
  /\ SF_vars(\E r \in inflight : stripeWebhookSave(r, TRUE))

RetrySpec == RetryInit /\ [][RetryNext]_vars /\ RetryFair

\* ------------------------------------------------- the discount codes

\* Strings are sequences of characters.  The stored codes, and the coupon
\* strings a request may carry: a code in another case, a code between
\* blanks, a string of no code, patterns, a blank, and nothing.
CodeStrings == {<<"A", "B">>, <<"a", "b">>}
CouponInputs ==
  { <<"A", "B">>, <<"a", "B">>, <<" ", "a", "b", " ">>, <<"C", "D">>,
    <<"a", ".">>, <<".", "*">>, <<"*">>, <<" ">>, <<>> }
Discounts == {0, 20}

\* Case folding of the "i" flag.
Lower(c) ==
  CASE c = "A" -> "a" [] c = "B" -> "b" [] c = "C" -> "c" [] c = "D" -> "d"
    [] OTHER -> c

RECURSIVE TrimLeft(_)
TrimLeft(s) == IF s # <<>> /\ Head(s) = " " THEN TrimLeft(Tail(s)) ELSE s

RECURSIVE TrimRight(_)
TrimRight(s) ==
  IF s # <<>> /\ s[Len(s)] = " " THEN TrimRight(SubSeq(s, 1, Len(s) - 1)) ELSE s

\* String.prototype.trim
trim(s) == TrimRight(TrimLeft(s))

\* new RegExp(p) throws when a quantifier has nothing to repeat.
ValidRegExp(p) ==
  \A i \in 1..Len(p) : p[i] = "*" => (i > 1 /\ p[i - 1] # "*")

\* One pattern character against one character under the "i" flag.
CharMatch(pc, c) == pc = "." \/ Lower(pc) = Lower(c)

\* new RegExp(`^${p}$`, "i") tested against the whole string s: p is used
\* as a pattern, "." standing for any character and "*" for a repetition.
RECURSIVE RegExpTest(_, _)
RegExpTest(p, s) ==
  IF p = <<>> THEN s = <<>>
  ELSE IF Len(p) >= 2 /\ p[2] = "*"
    THEN \/ RegExpTest(SubSeq(p, 3, Len(p)), s)
         \/ s # <<>> /\ CharMatch(p[1], s[1]) /\ RegExpTest(p, Tail(s))
  ELSE s # <<>> /\ CharMatch(p[1], s[1]) /\ RegExpTest(Tail(p), Tail(s))

\* findOneActive without the isActive condition of the query.
findOneActive_AnyState(store, p) ==
  LET hits == {i \in 1..Len(store) : RegExpTest(p, store[i].code)}
  IN IF hits = {} THEN 0 ELSE CHOOSE i \in hits : \A j \in hits : i <= j

\* Code.findOne({code: {$regex: ...}, isActive: true}): the position of the
\* first stored code that is active and matches, 0 when there is none.
findOneActive(store, p) ==
  LET hits == {i \in 1..Len(store) :
                 store[i].isActive /\ RegExpTest(p, store[i].code)}
  IN IF hits = {} THEN 0 ELSE CHOOSE i \in hits : \A j \in hits : i <= j

ShopResp(op, code, error, req, coupon, meta) ==
  [op |-> op, code |-> code, error |-> error, req |-> req, coupon |-> coupon,
   meta |-> meta]

\* The response of the last step has been handed over.
ShopSent ==
  /\ shopResp # NoShopResp
  /\ shopResp' = NoShopResp
  /\ UNCHANGED <<now, env, auth, db, inflight, lastResp, history, ev>>
  /\ UNCHANGED <<codes, customerRef, customers, pending>>

\* -------------------------------------------------- POST /coupon/validate

\* A validation that does not look at the usage fields.
validateResult_IgnoresUse(store, code, dbOk) ==
  LET req == [NoReq EXCEPT !.couponCode = code]
      fail(status, error) ==
        ShopResp("validate", status, error, req, NoCoupon, NoMeta)
      i == findOneActive(store, trim(code))
  IN
  IF code = <<>> THEN fail(400, "required")
  ELSE IF ~ValidRegExp(trim(code)) \/ ~dbOk THEN fail(500, "failed")
  ELSE IF i = 0 THEN fail(404, "invalid or inactive")
  ELSE ShopResp("validate", 200, "", req,
                [code |-> store[i].code, discount |-> store[i].discount],
                NoMeta)

\* The response of validateCoupon on a store (dbOk: whether the store
\* answers).
validateResult(store, code, dbOk) ==
  LET req == [NoReq EXCEPT !.couponCode = code]
      fail(status, error) ==
        ShopResp("validate", status, error, req, NoCoupon, NoMeta)
      i == findOneActive(store, trim(code))
  IN
  IF code = <<>> THEN fail(400, "required")
  ELSE IF ~ValidRegExp(trim(code)) \/ ~dbOk THEN fail(500, "failed")
  ELSE IF i = 0 THEN fail(404, "invalid or inactive")
  ELSE IF store[i].usedBy /\ store[i].usedAt THEN fail(400, "used")
  ELSE ShopResp("validate", 200, "", req,
                [code |-> store[i].code, discount |-> store[i].discount],
                NoMeta)

\* A validation that redeems the code it accepts.
validateCoupon_Redeems(code, dbOk) ==
  LET i == findOneActive(codes, trim(code)) IN
  /\ shopResp = NoShopResp
  /\ shopResp' = validateResult(codes, code, dbOk)
  /\ codes' = IF shopResp'.code = 200
               THEN [codes EXCEPT ![i].usedBy = TRUE, ![i].usedAt = TRUE]
               ELSE codes
  /\ UNCHANGED <<now, env, auth, db, inflight, lastResp, history, ev>>
  /\ UNCHANGED <<customerRef, customers, pending>>

\* validateCoupon: one read of the store and the response.
validateCoupon(code, dbOk) ==
  /\ shopResp = NoShopResp
  /\ shopResp' = validateResult(codes, code, dbOk)
  /\ UNCHANGED <<now, env, auth, db, inflight, lastResp, history, ev>>
  /\ UNCHANGED <<codes, customerRef, customers, pending>>

\* ---------------------------------- POST /payment/create-checkout-session

\* Amounts of money are counted in hundredths of a cent, so that
\* amount * discount / 100 is exact: 0, 9.99 and 100.00.
Amounts == {0, 99900, 1000000}

\* Math.round(finalAmount * 100): the amount in cents, halves rounded up.
RoundCents(amount) == (amount + 50) \div 100

\* The discount step of createCheckoutSession on a found coupon.
Discounted(amount, coupon) ==
  LET discountAmount == (amount * coupon.discount) \div 100
      finalAmount == amount - discountAmount
  IN [couponCode |-> coupon.code, discountAmount |-> discountAmount,
      finalAmount |-> IF finalAmount < 0 THEN 0 ELSE finalAmount]

\* A checkout request between two awaited operations: the stripeCustomerId
\* it loaded (base) and holds now (customer), and the session it will ask for.
Checkout(user, pc, base, customer, req, meta) ==
  [user |-> user, pc |-> pc, base |-> base, customer |-> customer,
   req |-> req, meta |-> meta]

\* stripe.checkout.sessions.create and the response (upOk: whether the
\* provider answers).
CreateSession(req, meta, customer, upOk) ==
  IF upOk
    THEN shopResp' = ShopResp("checkout", 200, "", req, NoCoupon,
                              [meta EXCEPT !.customer = customer])
    ELSE shopResp' = ShopResp("checkout", 500, "failed", req, NoCoupon, NoMeta)

\* createCheckoutSession from its start to stripe.customers.create, or to
\* its response when the user has a customer: the checks, Code.findOne and
\* User.findById (dbOk: whether the store answers).
createCheckoutSession(userId, amount, couponCode, dbOk, upOk) ==
  LET req == [userId |-> userId, amount |-> amount, couponCode |-> couponCode]
      fail(status, error) ==
        /\ shopResp' = ShopResp("checkout", status, error, req, NoCoupon, NoMeta)
        /\ UNCHANGED pending
      i == findOneActive(codes, trim(couponCode))
      given == couponCode # <<>>
      calc == IF given
                THEN Discounted(amount, codes[i])
                ELSE [couponCode |-> <<>>, discountAmount |-> 0,
                      finalAmount |-> amount]
      meta == [userId |-> userId, customer |-> NoCustomer,
               couponCode |-> calc.couponCode, originalAmount |-> amount,
               discountAmount |-> calc.discountAmount,
               finalAmount |-> calc.finalAmount,
               unit_amount |-> RoundCents(calc.finalAmount)]
  IN
  /\ shopResp = NoShopResp
  /\ UNCHANGED <<now, env, auth, db, inflight, lastResp, history, ev>>
  /\ UNCHANGED <<codes, customerRef, customers>>
  /\ IF ~env.stripe THEN fail(500, "not configured")
     ELSE IF userId = NoRef \/ amount = 0 THEN fail(400, "required")
     ELSE IF given /\ (~ValidRegExp(trim(couponCode)) \/ ~dbOk)
       THEN fail(500, "failed")
     ELSE IF given /\ (i = 0 \/ codes[i].discount = 0)
       THEN fail(400, "invalid or inactive")
     ELSE IF ~isValid(userId) THEN fail(400, "invalid id")
     ELSE IF ~dbOk THEN fail(500, "failed")
     ELSE IF userId \notin Users THEN fail(404, "not found")
     ELSE IF customerRef[userId] = NoCustomer
       THEN LET r == Checkout(userId, "customer", NoCustomer, NoCustomer,
                              req, meta)
            IN /\ Cardinality(pending \cup {r}) <= MaxInflight
               /\ pending' = pending \cup {r}
               /\ UNCHANGED shopResp
     ELSE /\ CreateSession(req, meta, customerRef[userId], upOk)
          /\ UNCHANGED pending

\* await stripe.customers.create of createCheckoutSession.
createCustomer(r, upOk) ==
  /\ shopResp = NoShopResp
  /\ r \in pending
  /\ r.pc = "customer"
  /\ UNCHANGED <<now, env, auth, db, inflight, lastResp, history, ev>>
  /\ UNCHANGED <<codes, customerRef>>
  /\ IF upOk
       THEN /\ customers[r.user] < MaxCustomers
            /\ customers' = [customers EXCEPT ![r.user] = @ + 1]
            /\ pending' = (pending \ {r}) \cup
                  {[r EXCEPT !.pc = "save", !.customer = customers[r.user] + 1]}
            /\ UNCHANGED shopResp
       ELSE /\ shopResp' = ShopResp("checkout", 500, "failed", r.req, NoCoupon,
                                    NoMeta)
            /\ pending' = pending \ {r}
            /\ UNCHANGED customers

\* checkoutSave redeeming the coupon of the request: the save marks the
\* code as used.
checkoutSave_Redeems(r, dbOk, upOk) ==
  LET i == findOneActive(codes, trim(r.req.couponCode)) IN
  /\ shopResp = NoShopResp
  /\ r \in pending
  /\ r.pc = "save"
  /\ UNCHANGED <<now, env, auth, db, inflight, lastResp, history, ev>>
  /\ UNCHANGED customers
  /\ pending' = pending \ {r}
  /\ IF dbOk
       THEN /\ customerRef' = [customerRef EXCEPT ![r.user] =
                                IF r.customer # r.base THEN r.customer ELSE @]
            /\ codes' = IF r.req.couponCode # <<>> /\ i # 0
                          THEN [codes EXCEPT ![i].usedBy = TRUE,
                                             ![i].usedAt = TRUE]
                          ELSE codes
            /\ CreateSession(r.req, r.meta, r.customer, upOk)
       ELSE /\ shopResp' = ShopResp("checkout", 500, "failed", r.req, NoCoupon,
                                    NoMeta)
            /\ UNCHANGED <<codes, customerRef>>

\* await user.save() of createCheckoutSession, which sends the
\* stripeCustomerId the handler assigned, then sessions.create and the
\* response.
checkoutSave(r, dbOk, upOk) ==
  /\ shopResp = NoShopResp
  /\ r \in pending
  /\ r.pc = "save"
  /\ UNCHANGED <<now, env, auth, db, inflight, lastResp, history, ev>>
  /\ UNCHANGED <<codes, customers>>
  /\ pending' = pending \ {r}
  /\ IF dbOk
       THEN /\ customerRef' = [customerRef EXCEPT ![r.user] =
                                IF r.customer # r.base THEN r.customer ELSE @]
            /\ CreateSession(r.req, r.meta, r.customer, upOk)
       ELSE /\ shopResp' = ShopResp("checkout", 500, "failed", r.req, NoCoupon,
                                    NoMeta)
            /\ UNCHANGED customerRef

\* ------------------------------------- coupons and sequential checkouts

\* A stored discount code; usedBy and usedAt say whether the field is set.
CodeRecords ==
  [code : CodeStrings, discount : Discounts, isActive : BOOLEAN,
   usedBy : BOOLEAN, usedAt : BOOLEAN]

\* The contents of the store: codes are unique.
Stores ==
  {<<>>} \cup {<<c>> : c \in CodeRecords}
         \cup {p \in {<<c, d>> : c \in CodeRecords, d \in CodeRecords} :
                 p[1].code # p[2].code}

\* The payment handlers are idle.
PayIdle ==
  /\ now = 0
  /\ db = [u \in Users |-> NewUser]
  /\ inflight = {}
  /\ lastResp = NoResp
  /\ everPaid = [u \in Users |-> FALSE]
  /\ activeAt = [u \in Users |-> NoDate]
  /\ expiredAt = [u \in Users |-> NoDate]
  /\ appliedBy = [s \in SessionIds |-> {}]
  /\ racedBy = [s \in SessionIds |-> {}]
  /\ ev = NoEval

ShopInit ==
  /\ PayIdle
  /\ env = [stripe |-> TRUE, webhookSecret |-> TRUE]
  /\ codes \in Stores
  /\ customerRef = [u \in Users |-> NoCustomer]
  /\ customers = [u \in Users |-> 0]
  /\ pending = {}
  /\ shopResp = NoShopResp
  /\ AuthIdle

\* Coupon validations and checkouts of user u1, one request at a time, over
\* every content of the store.
ShopNext ==
  \/ ShopSent
  \/ \E code \in CouponInputs, dbOk \in BOOLEAN :
        /\ pending = {}
        /\ validateCoupon(code, dbOk)
  \/ \E amount \in Amounts \ {0}, couponCode \in CouponInputs,
        dbOk \in BOOLEAN, upOk \in BOOLEAN :
        /\ pending = {}
        /\ createCheckoutSession("u1", amount, couponCode, dbOk, upOk)
  \/ \E r \in pending, upOk \in BOOLEAN : createCustomer(r, upOk)
  \/ \E r \in pending, dbOk \in BOOLEAN, upOk \in BOOLEAN :
        checkoutSave(r, dbOk, upOk)

ShopSpec == ShopInit /\ [][ShopNext]_vars

\* ------------------------------------------------- concurrent checkouts

\* One active code of 20 percent is stored.
CheckoutInit ==
  /\ PayIdle
  /\ env \in [stripe : BOOLEAN, webhookSecret : {TRUE}]
  /\ codes = <<[code |-> <<"A", "B">>, discount |-> 20, isActive |-> TRUE,
                usedBy |-> FALSE, usedAt |-> FALSE]>>
  /\ customerRef = [u \in Users |-> NoCustomer]
  /\ customers = [u \in Users |-> 0]
  /\ pending = {}
  /\ shopResp = NoShopResp
  /\ AuthIdle

\* Checkouts of user u1 and of references that resolve to no user,
\* interleaved at their awaited operations.
CheckoutNext ==
  \/ ShopSent
  \/ \E userId \in {"u1", UnknownRef, InvalidRef, NoRef},
        amount \in {0, 1000000},
        couponCode \in {<<>>, <<"a", "b">>, <<"C", "D">>},
        dbOk \in BOOLEAN, upOk \in BOOLEAN :
        createCheckoutSession(userId, amount, couponCode, dbOk, upOk)
  \/ \E r \in pending, upOk \in BOOLEAN : createCustomer(r, upOk)
  \/ \E r \in pending, dbOk \in BOOLEAN, upOk \in BOOLEAN :
        checkoutSave(r, dbOk, upOk)

CheckoutSpec == CheckoutInit /\ [][CheckoutNext]_vars

\* ------------------------------------------------ administration of codes

\* A field of a request body: given with a value, or absent (undefined).
Given(v) == [given |-> TRUE, value |-> v]
Absent(v) == [given |-> FALSE, value |-> v]

\* The :id of a request: the position of a stored code (the place of a removed
\* record stays taken, so the position of a record identifies it as its _id
\* does), a
\* well-formed identifier of no record, or a string that is no identifier.
UnknownId == 0
InvalidId == -1
CodeIds == {1, 2, UnknownId, InvalidId}

\* Bodies of the administrative requests: code strings with and without
\* surrounding blanks, blank and missing; discounts inside and outside
\* [0, 100].
AdminCodes == CodeStrings \cup {<<" ", "A", "B">>, <<" ">>, <<>>}
AdminDiscounts == {Absent(0), Given(-1), Given(20), Given(101)}
UpdateCodes == {Absent(<<>>), Given(<<"A", "B">>), Given(<<"a", "b", " ">>)}
UpdateActive == {Absent(TRUE), Given(FALSE)}

\* A range check that tests the upper end only.
OutOfRange_UpperOnly(discount) == discount.given /\ discount.value > 100

\* discountValue < 0 || discountValue > 100, for a discount that was given.
OutOfRange(discount) ==
  discount.given /\ (discount.value < 0 \/ discount.value > 100)

\* The place of a record that was deleted: identifiers are not given out
\* again, so the record's position stays taken.  No stored code is empty.
Gone == [code |-> <<>>, discount |-> 0, isActive |-> FALSE, usedBy |-> FALSE,
         usedAt |-> FALSE]

\* Code.findOne({code: c, _id: {$ne: id}}) finds a record: an exact match.
existingCode(store, c, id) ==
  \E j \in 1..Len(store) : j # id /\ store[j] # Gone /\ store[j].code = c

\* An administrative request awaiting its write: op is "create" or
\* "update", data what it will write.
AdminReq(op, id, data, req) == [op |-> op, id |-> id, data |-> data, req |-> req]

AdminResp(op, status, error, req, rec) ==
  ShopResp(op, status, error, req,
           [code |-> rec.code, discount |-> rec.discount], NoMeta)

\* createCode from its start to Code.create: the check of the body,
\* Code.findOne and the check of the discount.
createCode(code, discount, isActive, dbOk) ==
  LET req == [id |-> UnknownId, code |-> code, discount |-> discount,
              isActive |-> isActive]
      fail(status, error) ==
        /\ shopResp' = AdminResp("createCode", status, error, req, NoCoupon)
        /\ UNCHANGED pending
      codeData == [code |-> trim(code),
                   discount |-> IF discount.given THEN discount.value ELSE 0,
                   isActive |-> isActive, usedBy |-> FALSE, usedAt |-> FALSE]
      r == AdminReq("create", UnknownId, codeData, req)
  IN
  /\ shopResp = NoShopResp
  /\ UNCHANGED <<now, env, auth, db, inflight, lastResp, history, ev>>
  /\ UNCHANGED <<codes, customerRef, customers>>
  /\ IF code = <<>> THEN fail(400, "required")
     ELSE IF ~dbOk THEN fail(500, "failed")
     ELSE IF existingCode(codes, trim(code), UnknownId) THEN fail(409, "exists")
     ELSE IF OutOfRange(discount) THEN fail(400, "discount")
     ELSE /\ Cardinality(pending \cup {r}) <= MaxInflight
          /\ pending' = pending \cup {r}
          /\ UNCHANGED shopResp

\* await Code.create of createCode, under the schema's validators and the
\* unique index on code, and the response.
createCodeSave(r, dbOk) ==
  LET fail(error) ==
        /\ shopResp' = AdminResp("createCode", 500, error, r.req, NoCoupon)
        /\ UNCHANGED codes
  IN
  /\ shopResp = NoShopResp
  /\ r \in pending
  /\ r.op = "create"
  /\ pending' = pending \ {r}
  /\ UNCHANGED <<now, env, auth, db, inflight, lastResp, history, ev>>
  /\ UNCHANGED <<customerRef, customers>>
  /\ IF ~dbOk THEN fail("failed")
     ELSE IF r.data.code = <<>> THEN fail("validation")
     ELSE IF existingCode(codes, r.data.code, UnknownId)
       THEN fail("duplicate key")
     ELSE /\ codes' = Append(codes, r.data)
          /\ shopResp' = AdminResp("createCode", 201, "", r.req, r.data)

\* updateCode from its start to Code.findByIdAndUpdate: the check of the
\* identifier, Code.findOne when a code is given, and the check of the
\* discount.
updateCode(id, code, discount, isActive, dbOk) ==
  LET req == [id |-> id, code |-> code, discount |-> discount,
              isActive |-> isActive]
      fail(status, error) ==
        /\ shopResp' = AdminResp("updateCode", status, error, req, NoCoupon)
        /\ UNCHANGED pending
      updateData == [code |-> IF code.given THEN Given(trim(code.value))
                                            ELSE code,
                     discount |-> discount, isActive |-> isActive]
      r == AdminReq("update", id, updateData, req)
  IN
  /\ shopResp = NoShopResp
  /\ UNCHANGED <<now, env, auth, db, inflight, lastResp, history, ev>>
  /\ UNCHANGED <<codes, customerRef, customers>>
  /\ IF id = InvalidId THEN fail(400, "invalid id")
     ELSE IF code.given /\ ~dbOk THEN fail(500, "failed")
     ELSE IF code.given /\ existingCode(codes, trim(code.value), id)
       THEN fail(409, "exists")
     ELSE IF OutOfRange(discount) THEN fail(400, "discount")
     ELSE /\ Cardinality(pending \cup {r}) <= MaxInflight
          /\ pending' = pending \cup {r}
          /\ UNCHANGED shopResp

\* await Code.findByIdAndUpdate of updateCode, with runValidators and under
\* the unique index on code, and the response.
updateCodeSave(r, dbOk) ==
  LET fail(status, error) ==
        /\ shopResp' = AdminResp("updateCode", status, error, r.req, NoCoupon)
        /\ UNCHANGED codes
      set == r.data
      old == codes[r.id]
      new == [old EXCEPT
                !.code = IF set.code.given THEN set.code.value ELSE @,
                !.discount = IF set.discount.given THEN set.discount.value
                                                   ELSE @,
                !.isActive = IF set.isActive.given THEN set.isActive.value
                                                   ELSE @]
  IN
  /\ shopResp = NoShopResp
  /\ r \in pending
  /\ r.op = "update"
  /\ pending' = pending \ {r}
  /\ UNCHANGED <<now, env, auth, db, inflight, lastResp, history, ev>>
  /\ UNCHANGED <<customerRef, customers>>
  /\ IF ~dbOk THEN fail(500, "failed")
     ELSE IF set.code.given /\ set.code.value = <<>>
       THEN fail(500, "validation")
     ELSE IF r.id \notin 1..Len(codes) \/ old = Gone
       THEN fail(404, "not found")
     ELSE IF set.code.given /\ existingCode(codes, set.code.value, r.id)
       THEN fail(500, "duplicate key")
     ELSE /\ codes' = [codes EXCEPT ![r.id] = new]
          /\ shopResp' = AdminResp("updateCode", 200, "", r.req, new)

\* The store is empty and no request is under way.
AdminInit ==
  /\ PayIdle
  /\ env = [stripe |-> TRUE, webhookSecret |-> TRUE]
  /\ ShopIdle
  /\ AuthIdle

\* Creations and updates of codes, one request at a time.
AdminNext ==
  \/ ShopSent
  \/ \E code \in AdminCodes, discount \in AdminDiscounts,
        isActive \in BOOLEAN, dbOk \in BOOLEAN :
        /\ pending = {}
        /\ createCode(code, discount, isActive, dbOk)
  \/ \E r \in pending, dbOk \in BOOLEAN : createCodeSave(r, dbOk)
  \/ \E id \in CodeIds, code \in UpdateCodes, discount \in AdminDiscounts,
        isActive \in UpdateActive, dbOk \in BOOLEAN :
        /\ pending = {}
        /\ updateCode(id, code, discount, isActive, dbOk)
  \/ \E r \in pending, dbOk \in BOOLEAN : updateCodeSave(r, dbOk)

AdminSpec == AdminInit /\ [][AdminNext]_vars

\* ------------------------------------- administration, requests interleaved

\* deleteCode: the check of the identifier, Code.findByIdAndDelete and the
\* response.
deleteCode(id, dbOk) ==
  LET req == [id |-> id, code |-> Absent(<<>>), discount |-> Absent(0),
              isActive |-> Absent(TRUE)]
      resp(status, error) ==
        shopResp' = AdminResp("deleteCode", status, error, req, NoCoupon)
  IN
  /\ shopResp = NoShopResp
  /\ UNCHANGED <<now, env, auth, db, inflight, lastResp, history, ev>>
  /\ UNCHANGED <<customerRef, customers, pending>>
  /\ IF id = InvalidId THEN resp(400, "invalid id") /\ UNCHANGED codes
     ELSE IF ~dbOk THEN resp(500, "failed") /\ UNCHANGED codes
     ELSE IF id \notin 1..Len(codes) \/ codes[id] = Gone
       THEN resp(404, "not found") /\ UNCHANGED codes
     ELSE /\ codes' = [codes EXCEPT ![id] = Gone]
          /\ shopResp' = AdminResp("deleteCode", 200, "", req, codes[id])

\* An entry of the array of createBulkCodes.
Entry(code, discount) == [code |-> code, discount |-> discount]

\* The validation loop of createBulkCodes reports an error: an entry without
\* a code, an entry whose discount is out of range, or an entry whose
\* trimmed code is that of an earlier entry.
bulkErrors(entries) ==
  \E i \in 1..Len(entries) :
    \/ entries[i].code = <<>>
    \/ OutOfRange(entries[i].discount)
    \/ \E j \in 1..(i - 1) : trim(entries[j].code) = trim(entries[i].code)

\* codesToInsert of createBulkCodes when the loop reported no error.
codesToInsert(entries) ==
  [i \in 1..Len(entries) |->
     [code |-> trim(entries[i].code),
      discount |-> IF entries[i].discount.given THEN entries[i].discount.value
                                                ELSE 0,
      isActive |-> TRUE, usedBy |-> FALSE, usedAt |-> FALSE]]

\* createBulkCodes from its start to Code.insertMany: the check of the
\* array, the validation loop and Code.find.
createBulkCodes(entries, dbOk) ==
  LET req == [id |-> UnknownId, entries |-> entries]
      fail(status, error) ==
        /\ shopResp' = AdminResp("createBulkCodes", status, error, req, NoCoupon)
        /\ UNCHANGED pending
      docs == codesToInsert(entries)
      r == AdminReq("bulk", UnknownId, docs, req)
  IN
  /\ shopResp = NoShopResp
  /\ UNCHANGED <<now, env, auth, db, inflight, lastResp, history, ev>>
  /\ UNCHANGED <<codes, customerRef, customers>>
  /\ IF entries = <<>> THEN fail(400, "required")
     ELSE IF bulkErrors(entries) THEN fail(400, "validation")
     ELSE IF ~dbOk THEN fail(500, "failed")
     ELSE IF \E i \in 1..Len(docs) : existingCode(codes, docs[i].code, UnknownId)
       THEN fail(409, "exists")
     ELSE /\ Cardinality(pending \cup {r}) <= MaxInflight
          /\ pending' = pending \cup {r}
          /\ UNCHANGED shopResp

\* The number of documents an ordered insertMany stores: it inserts in the
\* order of the array and stops at the first document the unique index
\* refuses.
RECURSIVE inserted(_, _)
inserted(store, docs) ==
  IF docs = <<>> \/ existingCode(store, Head(docs).code, UnknownId) THEN 0
  ELSE 1 + inserted(Append(store, Head(docs)), Tail(docs))

\* await Code.insertMany of createBulkCodes (ordered), under the schema's
\* validators and the unique index on code, and the response.
createBulkCodesSave(r, dbOk) ==
  LET fail(error) ==
        shopResp' = AdminResp("createBulkCodes", 500, error, r.req, NoCoupon)
      n == inserted(codes, r.data)
  IN
  /\ shopResp = NoShopResp
  /\ r \in pending
  /\ r.op = "bulk"
  /\ pending' = pending \ {r}
  /\ UNCHANGED <<now, env, auth, db, inflight, lastResp, history, ev>>
  /\ UNCHANGED <<customerRef, customers>>
  /\ IF ~dbOk THEN fail("failed") /\ UNCHANGED codes
     ELSE IF \E i \in 1..Len(r.data) : r.data[i].code = <<>>
       THEN fail("validation") /\ UNCHANGED codes
     ELSE /\ codes' = codes \o SubSeq(r.data, 1, n)
          /\ IF n = Len(r.data)
               THEN shopResp' = AdminResp("createBulkCodes", 201, "", r.req,
                                          NoCoupon)
               ELSE fail("duplicate key")

\* The requests of the interleaved administration: two bodies for the code
\* "AB", one for "ab"; arrays of one and two entries, well-formed or not.
RaceCreates ==
  {<<c, d>> : c \in {<<"A", "B">>}, d \in {Absent(0), Given(20)}}
    \cup {<<<<"a", "b">>, Given(20)>>, <<<<"A", "B">>, Given(101)>>}
RaceBulks ==
  { <<Entry(<<"A", "B">>, Given(20))>>,
    <<Entry(<<"a", "b">>, Absent(0)), Entry(<<"A", "B">>, Absent(0))>>,
    <<Entry(<<"A", "B">>, Absent(0)), Entry(<<"A", "B", " ">>, Given(20))>>,
    <<Entry(<<"a", "b">>, Absent(0)), Entry(<<>>, Absent(0))>>,
    <<Entry(<<"a", "b">>, Given(101))>>,
    <<>> }
RaceUpdates ==
  {<<Given(<<"A", "B">>), Absent(0)>>, <<Absent(<<>>), Given(20)>>,
   <<Absent(<<>>), Given(101)>>}

\* Creations, bulk creations, updates and deletions of codes, interleaved at
\* their awaited operations, from an empty store.
AdminRaceNext ==
  \/ ShopSent
  \/ \E b \in RaceCreates, dbOk \in BOOLEAN :
        createCode(b[1], b[2], TRUE, dbOk)
  \/ \E r \in pending, dbOk \in BOOLEAN :
        /\ createCodeSave(r, dbOk)
        /\ Len(codes') <= MaxCodes
  \/ \E entries \in RaceBulks, dbOk \in BOOLEAN : createBulkCodes(entries, dbOk)
  \/ \E r \in pending, dbOk \in BOOLEAN :
        /\ createBulkCodesSave(r, dbOk)
        /\ Len(codes') <= MaxCodes
  \/ \E id \in 1..MaxCodes, b \in RaceUpdates, dbOk \in BOOLEAN :
        updateCode(id, b[1], b[2], Absent(TRUE), dbOk)
  \/ \E r \in pending, dbOk \in BOOLEAN : updateCodeSave(r, dbOk)
  \/ \E id \in (1..MaxCodes) \cup {UnknownId, InvalidId}, dbOk \in BOOLEAN :
        deleteCode(id, dbOk)

AdminRaceSpec == AdminInit /\ [][AdminRaceNext]_vars


\* ------------------------------------ the operations on a user reference

\* References to user u1, to no user, and a string that is no identifier.
RefInputs == {"u1", UnknownRef, InvalidRef}

\* The three handlers that resolve a user reference, interleaved at one
\* clock value: the status read, verifySession and createCheckoutSession.
RefNext ==
  \/ Sent
  \/ ShopSent
  \/ \E ref \in RefInputs, dbOk \in BOOLEAN : getPaymentStatus(ref, dbOk)
  \/ \E sid \in SessionIds, upOk \in BOOLEAN, dbOk \in BOOLEAN :
        verifySession(sid, upOk, dbOk)
  \/ \E r \in inflight, dbOk \in BOOLEAN : verifySessionSave(r, dbOk)
  \/ \E userId \in RefInputs, couponCode \in {<<>>, <<"a", "b">>},
        dbOk \in BOOLEAN, upOk \in BOOLEAN :
        createCheckoutSession(userId, 1000000, couponCode, dbOk, upOk)
  \/ \E r \in pending, upOk \in BOOLEAN : createCustomer(r, upOk)
  \/ \E r \in pending, dbOk \in BOOLEAN, upOk \in BOOLEAN :
        checkoutSave(r, dbOk, upOk)

RefSpec == CheckoutInit /\ [][RefNext]_vars

\* ------------------------------------------------- the password reset

\* A password request between two awaited operations: pc names the
\* operation it waits for, t is the clock value its handler read.
AuthRequest(op, pc, email, token, password, t) ==
  [op |-> op, pc |-> pc, email |-> email, token |-> token,
   password |-> password, t |-> t]

\* The tokens that were stored, and the number of stores so far.
Saved == {k \in 1..Len(issued) : issued[k].saved > 0}
Saves == Cardinality(Saved)

\* The password handlers leave the payment and the shop state alone.
AuthFrame == UNCHANGED <<now, env, db, inflight, lastResp, history, ev, shop>>

\* The response of the last password step has been handed over.
AuthSent ==
  /\ authResp # NoAuthResp
  /\ authResp' = NoAuthResp
  /\ AuthFrame
  /\ UNCHANGED <<accounts, emailEnv, issued, mail, authReqs>>

\* The clock advances while no password request waits longer than
\* MaxLatency.
AuthTick ==
  /\ authResp = NoAuthResp
  /\ \A r \in authReqs : (now + 1) - r.t <= MaxLatency
  /\ Tick

\* forgotPassword from its start to user.save: the check of the body,
\* User.findOne, the making of the token and of its expiry.
forgotPassword(email, dbOk) ==
  LET req == AuthBody(email, NoToken, NoPassword)
      answer(code, message) ==
        /\ authResp' = AuthResp("forgotPassword", code, message, req)
        /\ UNCHANGED <<issued, authReqs>>
      resetToken == Len(issued) + 1
      r == AuthRequest("forgot", "save", email, resetToken, NoPassword, now)
  IN
  /\ authResp = NoAuthResp
  /\ AuthFrame
  /\ UNCHANGED <<accounts, emailEnv, mail>>
  /\ IF email = NoEmail THEN answer(400, "Email is required")
     ELSE IF ~dbOk THEN answer(500, "findOne failed")
     ELSE IF email \notin Registered THEN answer(200, "reset link has been sent")
     ELSE /\ Len(issued) < MaxTokens
          /\ Cardinality(authReqs \cup {r}) <= MaxInflight
          /\ issued' = Append(issued, [email |-> email, at |-> now,
                                       saved |-> 0, resets |-> 0])
          /\ authReqs' = authReqs \cup {r}
          /\ UNCHANGED authResp

\* await user.save of forgotPassword, which writes the two reset fields, and
\* the call of sendEmail up to transporter.sendMail: sendEmail throws at once
\* when the mail variables of the environment are not set.
forgotPasswordSave(r, dbOk) ==
  LET fail(message) ==
        /\ authResp' = AuthResp("forgotPassword", 500, message,
                                AuthBody(r.email, NoToken, NoPassword))
        /\ authReqs' = authReqs \ {r}
  IN
  /\ authResp = NoAuthResp
  /\ r \in authReqs
  /\ r.op = "forgot" /\ r.pc = "save"
  /\ AuthFrame
  /\ UNCHANGED <<emailEnv, mail>>
  /\ IF ~dbOk THEN fail("save failed") /\ UNCHANGED <<accounts, issued>>
     ELSE /\ accounts' = [accounts EXCEPT ![r.email] =
                            [@ EXCEPT !.resetPasswordToken = Sha256(r.token),
                                      !.resetPasswordExpires = r.t + Hour]]
          /\ issued' = [issued EXCEPT ![r.token].saved = Saves + 1]
          /\ IF ~emailEnv THEN fail("Email environment variables are not properly set")
             ELSE /\ authReqs' = (authReqs \ {r}) \cup {[r EXCEPT !.pc = "mail"]}
                  /\ UNCHANGED authResp

\* await transporter.sendMail of sendEmail and the response of
\* forgotPassword.
forgotPasswordMail(r, mailOk) ==
  LET req == AuthBody(r.email, NoToken, NoPassword) IN
  /\ authResp = NoAuthResp
  /\ r \in authReqs
  /\ r.op = "forgot" /\ r.pc = "mail"
  /\ AuthFrame
  /\ UNCHANGED <<accounts, emailEnv, issued>>
  /\ authReqs' = authReqs \ {r}
  /\ IF mailOk
       THEN /\ mail' = mail \cup {r.token}
            /\ authResp' = AuthResp("forgotPassword", 200,
                                    "reset link has been sent", req)
       ELSE /\ authResp' = AuthResp("forgotPassword", 500, "sendMail failed", req)
            /\ UNCHANGED mail

\* resetPassword from its start to user.save: the check of the body and
\* User.findOne by email, token hash and an expiry after Date.now().
resetPassword(email, token, password, dbOk) ==
  LET req == AuthBody(email, token, password)
      answer(code, message) ==
        /\ authResp' = AuthResp("resetPassword", code, message, req)
        /\ UNCHANGED authReqs
      found ==
        /\ email \in Registered
        /\ accounts[email].resetPasswordToken = Sha256(token)
        /\ accounts[email].resetPasswordExpires > now
      r == AuthRequest("reset", "save", email, token, password, now)
  IN
  /\ authResp = NoAuthResp
  /\ AuthFrame
  /\ UNCHANGED <<accounts, emailEnv, issued, mail>>
  /\ IF email = NoEmail \/ token = NoToken \/ password = NoPassword
       THEN answer(400, "Email, token and new password are required")
     ELSE IF ~dbOk THEN answer(500, "findOne failed")
     ELSE IF ~found THEN answer(400, "Token is invalid or has expired")
     ELSE /\ Cardinality(authReqs \cup {r}) <= MaxInflight
          /\ authReqs' = authReqs \cup {r}
          /\ UNCHANGED authResp

\* bcrypt.genSalt, bcrypt.hash and await user.save of resetPassword, which
\* writes the password and unsets the two reset fields, and the response.
resetPasswordSave(r, dbOk) ==
  LET req == AuthBody(r.email, r.token, r.password) IN
  /\ authResp = NoAuthResp
  /\ r \in authReqs
  /\ r.op = "reset" /\ r.pc = "save"
  /\ AuthFrame
  /\ UNCHANGED <<emailEnv, mail>>
  /\ authReqs' = authReqs \ {r}
  /\ IF ~dbOk
       THEN /\ authResp' = AuthResp("resetPassword", 500, "save failed", req)
            /\ UNCHANGED <<accounts, issued>>
       ELSE /\ accounts' = [accounts EXCEPT ![r.email] =
                              [password |-> Bcrypt(r.password),
                               resetPasswordToken |-> NoHash,
                               resetPasswordExpires |-> NoDate]]
            /\ issued' = [issued EXCEPT ![r.token].resets = @ + 1]
            /\ authResp' = AuthResp("resetPassword", 200,
                                    "Password has been reset successfully", req)

\* No reset was asked for; the mail variables are set or not.
AuthInit ==
  /\ PayIdle
  /\ env = [stripe |-> TRUE, webhookSecret |-> TRUE]
  /\ ShopIdle
  /\ accounts = [e \in Registered |-> NewAccount]
  /\ emailEnv \in BOOLEAN
  /\ issued = <<>>
  /\ mail = {}
  /\ authReqs = {}
  /\ authResp = NoAuthResp

\* The tokens a client can send: those it was mailed, a string of its own
\* making, and none.
ClientTokens == mail \cup {ForgedToken, NoToken}

\* Requests for a reset and resets, interleaved at their awaited operations.
AuthNext ==
  \/ AuthTick
  \/ AuthSent
  \/ \E email \in Emails \cup {NoEmail}, dbOk \in BOOLEAN :
        forgotPassword(email, dbOk)
  \/ \E r \in authReqs, dbOk \in BOOLEAN : forgotPasswordSave(r, dbOk)
  \/ \E r \in authReqs, mailOk \in BOOLEAN : forgotPasswordMail(r, mailOk)
  \/ \E email \in Emails \cup {NoEmail}, token \in ClientTokens,
        password \in Passwords \cup {NoPassword}, dbOk \in BOOLEAN :
        resetPassword(email, token, password, dbOk)
  \/ \E r \in authReqs, dbOk \in BOOLEAN : resetPasswordSave(r, dbOk)

AuthSpec == AuthInit /\ [][AuthNext]_vars

\* ------------------------------------------------------------- claims

\* C1: applying the same checkout.session.completed notification (same
\* session) a second time, after its first application was stored, leaves
\* the user's subscriptionExpiryDate and paymentDate as they were, whatever
\* time has passed in between.
C1_RedeliveryLeavesDates ==
  [][\A r \in inflight :
       (stripeWebhookSave(r, TRUE) /\ "webhook" \in r.seen) =>
         /\ db'[r.user].subscriptionExpiryDate = db[r.user].subscriptionExpiryDate
         /\ db'[r.user].paymentDate = db[r.user].paymentDate]_vars

\* C2: once verifySession has applied the record-payment transition for a
\* session, no later verifySession call for that session changes paymentDate
\* or subscriptionExpiryDate or sets subscriptionStatus back to active,
\* whatever reads and clock ticks lie in between.
C2_VerifyAppliesOnce ==
  [][\A r \in inflight :
       (verifySessionSave(r, TRUE) /\ "verify" \in r.seen) =>
         /\ db'[r.user].paymentDate = db[r.user].paymentDate
         /\ db'[r.user].subscriptionExpiryDate = db[r.user].subscriptionExpiryDate
         /\ (db'[r.user].subscriptionStatus = "active"
               => db[r.user].subscriptionStatus = "active")]_vars

\* C3: nothing coordinates the two paths.  When one path has stored the
\* payment of a session and a request of the other path, which read the
\* record before any payment of the session was stored (paymentStatus
\* false), reaches its save, the save goes through and writes paymentDate and
\* subscriptionExpiryDate again from its own clock value: one payment, two
\* writes.
C3_BothPathsWrite ==
  [][\A r \in inflight :
       /\ (r.seen = {} /\ ~r.base.paymentStatus
             /\ "webhook" \in appliedBy[r.sess] /\ verifySessionSave(r, TRUE))
            => /\ db'[r.user].paymentDate = r.t
               /\ db'[r.user].subscriptionExpiryDate = r.t + Year
               /\ "verify" \in appliedBy'[r.sess]
       /\ (r.seen = {} /\ ~r.base.paymentStatus
             /\ "verify" \in appliedBy[r.sess] /\ stripeWebhookSave(r, TRUE))
            => /\ db'[r.user].paymentDate = r.t
               /\ db'[r.user].subscriptionExpiryDate = r.t + Year
               /\ "webhook" \in appliedBy'[r.sess]]_vars

\* Both paths have stored the payment of one session, each having read the
\* record before any payment was stored.
C3_DoubleWrite ==
  \E s \in SessionIds : racedBy[s] = {"webhook", "verify"}

\* C4: a payment recorded at T0 on the record as stored gives paymentStatus
\* true, paymentDate T0, subscriptionExpiryDate T0 + 1 year and status
\* active; a status read of that record up to T0 + 1 year reports entitlement
\* true; a status read after it (from T0 + 1 year + 1 on) stores status
\* expired and reports entitlement false.
C4_PaymentThenExpiry ==
  [][/\ \A r \in inflight :
          (r.base = db[r.user] /\ stripeWebhookSave(r, TRUE)) =>
            db'[r.user] = [paymentStatus |-> TRUE, paymentDate |-> r.t,
                           subscriptionExpiryDate |-> r.t + Year,
                           subscriptionStatus |-> "active"]
     /\ \A u \in Users :
          (/\ db[u].paymentStatus /\ db[u].subscriptionStatus = "active"
           /\ db[u].subscriptionExpiryDate = db[u].paymentDate + Year
           /\ getPaymentStatus(u, TRUE)) =>
            IF now <= db[u].paymentDate + Year
              THEN lastResp'.code = 200 /\ lastResp'.paymentStatus /\ db' = db
              ELSE /\ lastResp' = NoResp
                   /\ \E r \in inflight' : r.kind = "status" /\ r.user = u
     /\ \A r \in inflight :
          (r.kind = "status" /\ checkSubscriptionExpirySave(r, TRUE)) =>
            /\ lastResp'.code = 200 /\ ~lastResp'.paymentStatus
            /\ db'[r.user].subscriptionStatus = "expired"]_vars

\* A status read one tick after the end of the paid year has answered.
C4_ReadAfterExpiry ==
  \E u \in Users :
    /\ lastResp.op = "status" /\ lastResp.code = 200 /\ ~lastResp.paymentStatus
    /\ db[u].subscriptionStatus = "expired"
    /\ now = db[u].paymentDate + Year + 1
    /\ expiredAt[u] = now

\* The three-step evaluator of the specification.
RefEntitlement(user, t) ==
  /\ user.paymentStatus
  /\ user.subscriptionStatus = "active"
  /\ ~(user.subscriptionExpiryDate # NoDate /\ t > user.subscriptionExpiryDate)

\* C5: for every paymentStatus, subscriptionStatus, subscriptionExpiryDate
\* (absent, before, at, after now) and now, getEffectivePaymentStatus returns
\* what the three-step evaluator returns.
C5_EvaluatorAgrees ==
  ev.done => (ev.result <=> RefEntitlement(ev.user, ev.at))

\* Stored status active with the expiry in the past was evaluated.
C5_StaleActive ==
  /\ ev.done /\ ~ev.result
  /\ ev.user.paymentStatus /\ ev.user.subscriptionStatus = "active"
  /\ ev.user.subscriptionExpiryDate # NoDate
  /\ ev.at > ev.user.subscriptionExpiryDate

\* C6: in every stored state, status active implies an expiry later than the
\* time of the last transition to active, and status expired implies an
\* expiry earlier than the time of the evaluation that stored expired.
C6_StatusMatchesExpiry ==
  \A u \in Users :
    /\ db[u].subscriptionStatus = "active" =>
         /\ db[u].subscriptionExpiryDate # NoDate
         /\ db[u].subscriptionExpiryDate > activeAt[u]
    /\ db[u].subscriptionStatus = "expired" =>
         /\ db[u].subscriptionExpiryDate # NoDate
         /\ db[u].subscriptionExpiryDate < expiredAt[u]

\* C7: the stored status changes only none -> active and expired -> active,
\* by a recorded payment, and active -> expired, by an expiry evaluation; it
\* is none exactly while no payment has been recorded.
C7_StatusTransitions ==
  /\ [](\A u \in Users : db[u].subscriptionStatus = "none" <=> ~everPaid[u])
  /\ [][\A u \in Users :
          db'[u].subscriptionStatus # db[u].subscriptionStatus =>
            \/ /\ db[u].subscriptionStatus \in {"none", "expired"}
               /\ db'[u].subscriptionStatus = "active"
               /\ \E r \in inflight :
                    /\ r.user = u
                    /\ stripeWebhookSave(r, TRUE) \/ verifySessionSave(r, TRUE)
            \/ /\ db[u].subscriptionStatus = "active"
               /\ db'[u].subscriptionStatus = "expired"
               /\ \E r \in inflight :
                    r.user = u /\ checkSubscriptionExpirySave(r, TRUE)]_vars

\* A record went none -> active -> expired -> active.
C7_Reactivated ==
  \E u \in Users :
    /\ db[u].subscriptionStatus = "active"
    /\ expiredAt[u] # NoDate
    /\ activeAt[u] >= expiredAt[u]

\* C8: once a payment has been recorded, the stored paymentStatus is true in
\* every later state.
C8_PaidStaysTrue ==
  \A u \in Users : everPaid[u] => db[u].paymentStatus

\* C8 as amended: a stored paymentStatus of true becomes false only in the
\* save of an expiry evaluation, which stores subscriptionStatus expired with
\* it; every other step leaves a true flag true.
C8_FalseOnlyByExpiry ==
  [][\A u \in Users :
       (db[u].paymentStatus /\ ~db'[u].paymentStatus) =>
         /\ db'[u].subscriptionStatus = "expired"
         /\ \E r \in inflight :
              r.user = u /\ checkSubscriptionExpirySave(r, TRUE)]_vars

\* A paid record whose flag is false again.
C8_FlagCleared ==
  \E u \in Users :
    everPaid[u] /\ ~db[u].paymentStatus /\ db[u].subscriptionStatus = "expired"

\* C9: a webhook request whose signature does not verify is answered 400 and
\* changes no record and leaves no request pending, whatever its event type
\* and metadata.
C9_BadSignatureRejected ==
  [][\A type \in EventTypes, sid \in PaidSessionIds, dbOk \in BOOLEAN :
       (env.stripe /\ env.webhookSecret /\ stripeWebhook(FALSE, type, sid, dbOk)) =>
         /\ lastResp'.op = "webhook" /\ lastResp'.code = 400
         /\ ~lastResp'.received
         /\ db' = db
         /\ inflight' = inflight]_vars

\* A webhook request was answered 400 while a record holds a payment.
C9_Rejected ==
  /\ lastResp.op = "webhook" /\ lastResp.code = 400
  /\ \E u \in Users : everPaid[u]

\* C10: an authenticated checkout.session.completed event whose user
\* reference is missing, unknown or no identifier changes no record and is
\* answered with {received: true}.
C10_UnresolvedUserAcknowledged ==
  [][\A sid \in PaidSessionIds :
       (/\ stripeWebhook(TRUE, "checkout.session.completed", sid, TRUE)
        /\ env.stripe /\ env.webhookSecret
        /\ Session(sid).userId \notin Users) =>
         /\ db' = db
         /\ lastResp'.code = 200 /\ lastResp'.received]_vars

\* C11: a store failure in the dispatch of an authenticated event (the user
\* lookup or the save failing) is answered 500 and not acknowledged, and
\* changes no record; and when the provider redelivers the completed event
\* of an existing user until it is acknowledged and the store does not fail
\* for ever, the record eventually is active with paymentStatus true.
C11_FailureThenRetry ==
  /\ [][/\ Redeliver(FALSE) =>
            /\ lastResp'.code = 500 /\ ~lastResp'.received
            /\ db' = db /\ inflight' = inflight
        /\ \A r \in inflight :
             stripeWebhookSave(r, FALSE) =>
               /\ lastResp'.code = 500 /\ ~lastResp'.received
               /\ db' = db]_vars
  /\ <>(db["u1"].subscriptionStatus = "active" /\ db["u1"].paymentStatus)

\* A delivery failed at its save and was answered 500 while another delivery
\* of the event has made the record active.
C11_FailedAndActive ==
  /\ lastResp.op = "webhook" /\ lastResp.code = 500
  /\ "webhook" \in appliedBy["sA"]
  /\ db["u1"].subscriptionStatus = "active" /\ db["u1"].paymentStatus

\* The stored code with the given code string.
CodeOf(store, code) ==
  store[CHOOSE i \in 1..Len(store) : store[i].code = code]

\* An amount rounded to whole cents, halves up.
RoundToCent(amount) == ((amount + 50) \div 100) * 100

\* C12: a session created with a coupon of d percent on base amount a holds
\* discountAmount = round(a * d / 100), in whole cents, and
\* finalAmount = a - round(a * d / 100), which is not negative.
C12_RoundedDiscount ==
  (shopResp.op = "checkout" /\ shopResp.code = 200
     /\ shopResp.meta.couponCode # <<>>) =>
    LET a == shopResp.meta.originalAmount
        d == CodeOf(codes, shopResp.meta.couponCode).discount
        discountAmount == RoundToCent((a * d) \div 100)
    IN /\ shopResp.meta.discountAmount = discountAmount
       /\ shopResp.meta.finalAmount = a - discountAmount
       /\ shopResp.meta.finalAmount >= 0

\* The coupon string, used as the lookup uses it, selects a stored code.
Matches(couponCode, c) ==
  ValidRegExp(trim(couponCode)) /\ RegExpTest(trim(couponCode), c.code)

\* C13: a checkout whose coupon string matches no stored code, or inactive
\* codes only, is answered 400 whatever the amount; it creates no customer
\* and no session, leaves no request under way and changes no user record
\* and no code.
C13_BadCouponFailsWhole ==
  [][\A couponCode \in CouponInputs \ {<<>>} :
       (/\ ValidRegExp(trim(couponCode))
        /\ \A i \in 1..Len(codes) :
              Matches(couponCode, codes[i]) => ~codes[i].isActive) =>
         \A amount \in Amounts \ {0}, upOk \in BOOLEAN :
           createCheckoutSession("u1", amount, couponCode, TRUE, upOk) =>
             /\ shopResp'.code = 400
             /\ shopResp'.error = "invalid or inactive"
             /\ shopResp'.meta = NoMeta
             /\ customers' = customers /\ customerRef' = customerRef
             /\ pending' = pending
             /\ codes' = codes /\ db' = db]_vars

\* A checkout that named a stored but inactive code was answered 400.
C13_InactiveRejected ==
  /\ shopResp.op = "checkout" /\ shopResp.code = 400
  /\ shopResp.error = "invalid or inactive"
  /\ \E i \in 1..Len(codes) :
        Matches(shopResp.req.couponCode, codes[i]) /\ ~codes[i].isActive
  /\ customers["u1"] = 0

\* C14: the coupon step of createCheckoutSession agrees with validateCoupon
\* on the same store and the same coupon string: the checkout accepts the
\* coupon exactly when validateCoupon reports it valid, and with the same
\* discount percentage.
C14_CheckoutAgreesWithValidate ==
  (/\ shopResp.op = "checkout" /\ shopResp.req.couponCode # <<>>
   /\ shopResp.error \notin {"not configured", "required", "failed"}) =>
    LET v == validateResult(codes, shopResp.req.couponCode, TRUE)
        accepted == shopResp.error # "invalid or inactive"
    IN /\ accepted <=> v.code = 200
       /\ (accepted /\ shopResp.code = 200) =>
            shopResp.meta.discountAmount =
              (shopResp.req.amount * v.coupon.discount) \div 100

\* C15: over every interleaving of createCheckoutSession calls, at most one
\* customer is created at the provider for a user, and a stored
\* stripeCustomerId is never replaced by another value.
C15_CustomerOnce ==
  /\ [](\A u \in Users : customers[u] <= 1)
  /\ [][\A u \in Users :
          customerRef[u] # NoCustomer => customerRef'[u] = customerRef[u]]_vars

\* C16: validateCoupon is read-only and idempotent. For every code string
\* and every content of the store, a call leaves every discount-code record
\* as it was, usedBy and usedAt included, and leaves the users and the
\* provider's customers alone; and the call that follows it with the same
\* code, the store answering, returns the same result.
C16_ValidateReadOnly ==
  [][\A code \in CouponInputs, dbOk \in BOOLEAN :
       validateCoupon(code, dbOk) =>
         /\ codes' = codes
         /\ db' = db /\ customerRef' = customerRef /\ customers' = customers
         /\ dbOk => validateResult(codes', code, TRUE) = shopResp']_vars

\* A code has been reported valid and a stored record still carries a
\* usage field.
C16_ValidatedUsageKept ==
  /\ shopResp.op = "validate" /\ shopResp.code = 200
  /\ \E i \in 1..Len(codes) :
        /\ codes[i].code = shopResp.coupon.code
        /\ codes[i].usedBy # codes[i].usedAt

\* No stored code matches the input.
NoMatch(store, code) == \A i \in 1..Len(store) : ~Matches(code, store[i])

\* Stored codes match the input and all of them are inactive.
InactiveOnly(store, code) ==
  /\ \E i \in 1..Len(store) : Matches(code, store[i])
  /\ \A i \in 1..Len(store) : Matches(code, store[i]) => ~store[i].isActive

\* validateCoupon has answered a well-formed, non-empty input, the store
\* answering.
Validated ==
  /\ shopResp.op = "validate"
  /\ shopResp.error # "failed"
  /\ shopResp.req.couponCode # <<>>
  /\ ValidRegExp(trim(shopResp.req.couponCode))

\* C17 as stated: validateCoupon distinguishes its two failures. The
\* outcome for an input that matches only inactive codes is a failure that
\* differs, in status or in error, from the outcome for every input that
\* matches no stored code.
C17_DistinctFailures ==
  (Validated /\ InactiveOnly(codes, shopResp.req.couponCode)) =>
    /\ shopResp.code # 200
    /\ \A code \in CouponInputs \ {<<>>} :
         (ValidRegExp(trim(code)) /\ NoMatch(codes, code)) =>
           LET v == validateResult(codes, code, TRUE)
           IN <<v.code, v.error>> # <<shopResp.code, shopResp.error>>

\* C17: validateCoupon does not distinguish the two failures. When no stored
\* code matches the input, and when the stored codes that match are all
\* inactive, it fails with the same 404 "Invalid or inactive coupon code"
\* and reports no coupon.
C17_SameFailure ==
  (Validated /\ (\/ NoMatch(codes, shopResp.req.couponCode)
                 \/ InactiveOnly(codes, shopResp.req.couponCode))) =>
    /\ shopResp.code = 404
    /\ shopResp.error = "invalid or inactive"
    /\ shopResp.coupon = NoCoupon

\* An input that matches an inactive code has been answered with 404.
C17_InactiveAnswered ==
  /\ Validated
  /\ InactiveOnly(codes, shopResp.req.couponCode)
  /\ shopResp.code = 404

\* C18 as stated: the validation path does not enforce the single-use
\* binding. For an active stored code that matches the input, validateCoupon
\* returns valid with the code's discount whether or not usedBy and usedAt
\* are set.
C18_UseIgnored ==
  LET i == findOneActive(codes, trim(shopResp.req.couponCode)) IN
  (Validated /\ i # 0) =>
    /\ shopResp.code = 200
    /\ shopResp.coupon.discount = codes[i].discount

\* C18: the validation path enforces the single-use binding when both of
\* its fields are set. For an active stored code that matches the input,
\* validateCoupon fails with 400 "already been used" when the record's
\* usedBy and usedAt are both set, and returns valid with the code's
\* discount when at least one of them is unset.
C18_UseEnforced ==
  LET i == findOneActive(codes, trim(shopResp.req.couponCode)) IN
  (Validated /\ i # 0) =>
    IF codes[i].usedBy /\ codes[i].usedAt
    THEN /\ shopResp.code = 400
         /\ shopResp.error = "used"
         /\ shopResp.coupon = NoCoupon
    ELSE /\ shopResp.code = 200
         /\ shopResp.coupon = [code |-> codes[i].code,
                               discount |-> codes[i].discount]

\* An active code with both usage fields set has been refused as used.
C18_UsedRejected ==
  /\ Validated
  /\ shopResp.code = 400 /\ shopResp.error = "used"
  /\ \E i \in 1..Len(codes) :
        codes[i].isActive /\ codes[i].usedBy /\ codes[i].usedAt

\* s and t differ, and only in the case of their letters.
DiffersInCase(s, t) ==
  /\ s # t
  /\ Len(s) = Len(t)
  /\ \A k \in 1..Len(s) : Lower(s[k]) = Lower(t[k])

\* C19: coupon lookup is case-insensitive. For every stored active code c
\* and every input that differs from c only in letter case, validateCoupon
\* finds c and reports it valid with c's discount.
C19_CaseInsensitive ==
  (shopResp.op = "validate" /\ shopResp.error # "failed") =>
    \A i \in 1..Len(codes) :
      (codes[i].isActive
         /\ DiffersInCase(shopResp.req.couponCode, codes[i].code)) =>
        /\ shopResp.code = 200
        /\ shopResp.coupon = [code |-> codes[i].code,
                              discount |-> codes[i].discount]

\* The supplied discount lies outside [0, 100].
OutsidePercent(discount) ==
  discount.given /\ ~(0 <= discount.value /\ discount.value <= 100)

\* The string c is the code of a stored record other than the one at id.
EqualsAnother(store, c, id) ==
  \E j \in 1..Len(store) : j # id /\ store[j].code = c

\* The step refuses the request: 409 for a duplicate, 400 for a discount out
\* of range (either of the two when the request has both faults), no record
\* changed and no write left to come.
Refused(dup, bad) ==
  /\ shopResp'.code \in {400, 409}
  /\ ~bad => shopResp'.code = 409
  /\ ~dup => shopResp'.code = 400
  /\ codes' = codes
  /\ pending' = pending

\* C20: createCode and updateCode, given a well-formed identifier and the
\* store answering, fail with 400 whenever the supplied discount lies outside
\* [0, 100] and with 409 whenever the supplied code, trimmed, equals exactly
\* the code of another stored record; in both failures the stored codes are
\* unchanged.
C20_AdminRejects ==
  [][/\ \A code \in AdminCodes \ {<<>>}, discount \in AdminDiscounts,
           isActive \in BOOLEAN :
          LET dup == EqualsAnother(codes, trim(code), UnknownId)
              bad == OutsidePercent(discount)
          IN ((dup \/ bad) /\ createCode(code, discount, isActive, TRUE))
               => Refused(dup, bad)
     /\ \A id \in CodeIds \ {InvalidId}, code \in UpdateCodes,
           discount \in AdminDiscounts, isActive \in UpdateActive :
          LET dup == code.given /\ EqualsAnother(codes, trim(code.value), id)
              bad == OutsidePercent(discount)
          IN ((dup \/ bad) /\ updateCode(id, code, discount, isActive, TRUE))
               => Refused(dup, bad)]_vars

\* An update that names the code of another record, with a discount out of
\* range as well, has been refused, both records in place.
C20_DuplicateRefused ==
  /\ shopResp.op = "updateCode"
  /\ shopResp.code = 409
  /\ OutsidePercent(shopResp.req.discount)
  /\ Len(codes) = 2

\* The stored records: the places of deleted records left out.
Stored(store) == {i \in 1..Len(store) : store[i] # Gone}

\* Every stored code has a discount in [0, 100] and no two stored records
\* have the same code string.
CodesValidAndUnique ==
  /\ \A i \in Stored(codes) : 0 <= codes[i].discount /\ codes[i].discount <= 100
  /\ \A i, j \in Stored(codes) : i # j => codes[i].code # codes[j].code

\* C21: after any interleaving of createCode, createBulkCodes, updateCode
\* and deleteCode calls every stored code has a discount in [0, 100] and no
\* two stored records have the same exact code string; and when a create
\* reaches its insert after a concurrent create has stored the same code, no
\* second record is stored and the call fails with 409.
C21_UniqueAndLoserConflicts ==
  /\ []CodesValidAndUnique
  /\ [][\A r \in pending :
          (/\ r.op = "create"
           /\ existingCode(codes, r.data.code, UnknownId)
           /\ createCodeSave(r, TRUE)) =>
            /\ codes' = codes
            /\ shopResp'.code = 409]_vars

\* The answer to a user reference that resolves to no user: 400 for a
\* reference that is no identifier, 404 for a well-formed one.
Unresolved(ref, status) ==
  /\ ~isValid(ref) => status = 400
  /\ (isValid(ref) /\ ref \notin Users) => status = 404

\* C22: getPaymentStatus (reference from the URL), createCheckoutSession
\* (from the body) and verifySession (from the metadata of the retrieved
\* session) answer 400 to a reference that is no valid identifier and 404 to
\* a well-formed reference to no user; and an error of the payment provider
\* is answered 500 at once, the request being dropped and not tried again.
C22_ReferenceErrors ==
  [][/\ \A ref \in {UnknownRef, InvalidRef} :
          /\ getPaymentStatus(ref, TRUE)
                => Unresolved(ref, lastResp'.code) /\ db' = db
          /\ \A upOk \in BOOLEAN :
               (env.stripe /\ createCheckoutSession(ref, 1000000, <<>>, TRUE, upOk))
                 => Unresolved(ref, shopResp'.code) /\ pending' = pending
     /\ \A sid \in PaidSessionIds :
          (/\ env.stripe
           /\ Session(sid).userId \in {UnknownRef, InvalidRef}
           /\ verifySession(sid, TRUE, TRUE))
            => Unresolved(Session(sid).userId, lastResp'.code) /\ db' = db
     /\ \A sid \in SessionIds, dbOk \in BOOLEAN :
          (env.stripe /\ verifySession(sid, FALSE, dbOk))
            => lastResp'.code = 500 /\ inflight' = inflight /\ db' = db
     /\ \A r \in pending :
          /\ createCustomer(r, FALSE)
                => shopResp'.code = 500 /\ pending' = pending \ {r}
          /\ \A dbOk \in BOOLEAN :
               checkoutSave(r, dbOk, FALSE)
                 => shopResp'.code = 500 /\ pending' = pending \ {r}]_vars

\* C23: verifySession applies the record-payment transition only when the
\* provider reports the session as paid.  For a session whose payment_status
\* is not paid it answers 200 with success false ("Payment not completed"),
\* changes no user record and leaves no write to come; and every payment
\* write verifySession has under way belongs to a paid session.
C23_UnpaidNotRecorded ==
  [][/\ \A sid \in SessionIds \ PaidSessionIds, dbOk \in BOOLEAN :
          (env.stripe /\ verifySession(sid, TRUE, dbOk)) =>
            /\ lastResp' = Resp("verify", 200, FALSE, FALSE, FALSE)
            /\ db' = db
            /\ inflight' = inflight
     /\ \A r \in inflight' :
          (r.kind = "verify" /\ r.pc = "paysave")
            => Session(r.sess).payment_status = "paid"]_vars

\* An unpaid session of user u1 has been reported as not completed, the
\* record of u1 holding no payment.
C23_UnpaidReported ==
  /\ lastResp = Resp("verify", 200, FALSE, FALSE, FALSE)
  /\ db["u1"] = NewUser
  /\ inflight = {}
  /\ env.stripe

\* C24: createCheckoutSession persists nothing locally except the customer
\* reference.  Each of its steps, on every path, leaves the payment fields
\* of every user record (paymentStatus, paymentDate, subscriptionStatus,
\* subscriptionExpiryDate) and every discount-code record, usedBy and usedAt
\* included, as they were; amount and discount go to the provider's session
\* and to the response only.
C24_CheckoutStoresNothing ==
  [][/\ \A userId \in RefInputs, couponCode \in {<<>>, <<"a", "b">>},
           dbOk \in BOOLEAN, upOk \in BOOLEAN :
          createCheckoutSession(userId, 1000000, couponCode, dbOk, upOk)
            => db' = db /\ codes' = codes /\ customerRef' = customerRef
     /\ \A r \in pending, upOk \in BOOLEAN :
          /\ createCustomer(r, upOk)
                => db' = db /\ codes' = codes /\ customerRef' = customerRef
          /\ \A dbOk \in BOOLEAN :
               checkoutSave(r, dbOk, upOk) =>
                 /\ db' = db /\ codes' = codes
                 /\ \A u \in Users \ {r.user} : customerRef'[u] = customerRef[u]]_vars

\* A checkout with a coupon of a user whose record holds a payment has been
\* answered with a session, the customer reference stored.
C24_PaidUserCheckedOut ==
  /\ shopResp.op = "checkout" /\ shopResp.code = 200
  /\ shopResp.meta.discountAmount > 0
  /\ db["u1"].paymentStatus
  /\ customerRef["u1"] # NoCustomer

\* C25: the verify-session response carries a field paid that is true
\* exactly when the provider reports the session as paid (success is true
\* in the 200 response of the paid branch and false in that of the unpaid
\* branch).
C25_PaidField ==
  (lastResp.op = "verify" /\ lastResp.code = 200) =>
    /\ "paid" \in DOMAIN lastResp
    /\ lastResp.paid <=> lastResp.success

\* C26: a committed payment is never undone by a concurrent read.  Once a
\* record-payment write made at T is stored (paymentDate = T), every status
\* read that starts before T + 1 year finds subscriptionStatus active and
\* returns entitlement true, whatever expiry writes of requests that loaded
\* the record before the payment were stored after it.
C26_PaymentSurvivesReads ==
  [][\A u \in Users :
       (/\ db[u].paymentDate # NoDate
        /\ now < db[u].paymentDate + Year
        /\ getPaymentStatus(u, TRUE)) =>
         /\ db[u].subscriptionStatus = "active"
         /\ lastResp'.code = 200
         /\ lastResp'.paymentStatus]_vars

\* C27: in every stored user state reached by webhook deliveries,
\* verifySession calls and status reads that do not overlap, starting from
\* paymentStatus false and subscriptionStatus none, the stored paymentStatus
\* is true if and only if the stored subscriptionStatus is active.
C27_FlagIffActive ==
  \A u \in Users :
    db[u].paymentStatus <=> db[u].subscriptionStatus = "active"

\* A record was paid, has expired and was stored as expired by a read.
C27_ExpiredByRead ==
  /\ inflight = {}
  /\ db["u1"].subscriptionStatus = "expired"
  /\ ~db["u1"].paymentStatus
  /\ expiredAt["u1"] = now

\* C28: entitlement periods never accumulate.  In every stored state in
\* which a payment has been recorded, subscriptionExpiryDate equals
\* paymentDate + 1 year, so that after any number of webhook redeliveries
\* and verifySession calls the expiry is no later than one year after the
\* present time.
C28_NoAccumulation ==
  \A u \in Users :
    everPaid[u] =>
      /\ db[u].paymentDate # NoDate
      /\ db[u].subscriptionExpiryDate = db[u].paymentDate + Year
      /\ db[u].subscriptionExpiryDate <= now + Year

\* The payment of session sA has been stored by the webhook and by
\* verifySession, the stored dates being those of a write after time 0.
C28_WrittenAgain ==
  /\ appliedBy["sA"] = {"webhook", "verify"}
  /\ db["u1"].paymentDate > 0

\* The request is refused as a whole: an entry lacks a code, has a discount
\* outside [0, 100], repeats the code of an earlier entry, or has a code
\* that is stored.
Faulty(entries, store) ==
  \E i \in 1..Len(entries) :
    \/ entries[i].code = <<>>
    \/ OutsidePercent(entries[i].discount)
    \/ \E j \in 1..(i - 1) : trim(entries[j].code) = trim(entries[i].code)
    \/ \E k \in Stored(store) : store[k].code = trim(entries[i].code)

\* The codes of the stored records.
StoredCodes(store) == {store[k].code : k \in Stored(store)}

\* C29: createBulkCodes is all-or-nothing.  A request with a faulty entry
\* stores no code and leaves no insert to come; the insert of a request
\* without one stores every code of the request, or none of them when a
\* concurrent createCode has stored one of its codes after the existence
\* check.
C29_BulkAllOrNothing ==
  [][/\ \A entries \in RaceBulks \ {<<>>} :
          (Faulty(entries, codes) /\ createBulkCodes(entries, TRUE)) =>
            codes' = codes /\ pending' = pending
     /\ \A r \in pending :
          (r.op = "bulk" /\ createBulkCodesSave(r, TRUE)) =>
            LET new == {r.data[i].code : i \in 1..Len(r.data)} IN
            IF new \cap StoredCodes(codes) = {}
              THEN new \subseteq StoredCodes(codes')
              ELSE codes' = codes]_vars

\* s and t are equal up to the case of their letters.
SameIgnoringCase(s, t) ==
  /\ Len(s) = Len(t)
  /\ \A k \in 1..Len(s) : Lower(s[k]) = Lower(t[k])

\* C30: a coupon string selects a stored code only when it equals that code
\* ignoring letter case.  Whenever validateCoupon reports a coupon valid, and
\* whenever createCheckoutSession applies a discount, some active stored
\* code is equal to the trimmed input up to case; a string with pattern
\* characters selects no code it is not equal to.
C30_OnlyEqualCodes ==
  (\/ shopResp.op = "validate" /\ shopResp.code = 200
   \/ /\ shopResp.op = "checkout" /\ shopResp.code = 200
      /\ shopResp.req.couponCode # <<>>) =>
    \E i \in 1..Len(codes) :
      /\ codes[i].isActive
      /\ SameIgnoringCase(trim(shopResp.req.couponCode), codes[i].code)

\* The active stored codes that equal the trimmed string s up to case.
ActiveMatches(store, s) ==
  {k \in Stored(store) :
     store[k].isActive /\ SameIgnoringCase(trim(s), store[k].code)}

\* C31: the case-insensitive lookup is unambiguous.  After any sequence of
\* administrative calls, at most one active stored code equals a given coupon
\* string ignoring case, so the discount of the string does not depend on
\* the record the store finds first.
C31_Unambiguous ==
  \A s \in CouponInputs : Cardinality(ActiveMatches(codes, s)) <= 1

\* The token stored last for the email, NoToken when none was stored.
Latest(email) ==
  LET ks == {k \in Saved : issued[k].email = email} IN
  IF ks = {} THEN NoToken
  ELSE CHOOSE k \in ks : \A j \in ks : issued[j].saved <= issued[k].saved

\* At clock value t the token is the one issued last for the email, no reset
\* has succeeded with it and less than one hour has passed since its issue.
Usable(email, token, t) ==
  /\ token \in 1..Len(issued)
  /\ token = Latest(email)
  /\ issued[token].resets = 0
  /\ t < issued[token].at + Hour

\* C32: a password-reset token is single-use and time-bounded.  A reset
\* succeeds only with the token issued last for its email, not used by a
\* successful reset, and strictly before one hour after its issue; a reset
\* with any other token, with a used token or after the hour is answered
\* 400 and leaves the accounts as they are.
C32_SingleUseTimeBounded ==
  [][/\ \A r \in authReqs :
          (r.op = "reset" /\ resetPasswordSave(r, TRUE)) =>
            Usable(r.email, r.token, r.t)
     /\ \A email \in Emails, token \in ClientTokens \ {NoToken},
           password \in Passwords :
          (~Usable(email, token, now)
             /\ resetPassword(email, token, password, TRUE)) =>
            /\ authResp'.code = 400
            /\ accounts' = accounts
            /\ authReqs' = authReqs]_vars

\* C33: forgotPassword does not reveal whether an email is registered.  The
\* request of an email of no account is answered 200 with the generic
\* message whenever the store works; so is the request of a registered
\* email under the same conditions, also when the mail is not configured or
\* is not delivered.
C33_SameAnswer ==
  (/\ authResp.op = "forgotPassword"
   /\ authResp.req.email # NoEmail
   /\ authResp.message \notin {"findOne failed", "save failed"}) =>
    /\ authResp.code = 200
    /\ authResp.message = "reset link has been sent"

====
